---- MODULE Spec2Model ----
(***************************************************************************)
(* The scraping orchestrator of aurodomus-backend (ScraperService) and the *)
(* vendor runs it dispatches (BaseParser.scrape, BaseParser.fetchHtml,     *)
(* CentarZlataParser.scrape), as a state machine.                          *)
(*                                                                         *)
(* Granularity.  The service runs on one JavaScript thread: a handler runs *)
(* from one suspension on a timer or on the network to the next without    *)
(* interleaving, and the promise continuations that follow a resumed await *)
(* (microtasks) run before any other timer, request or response handler.   *)
(* An action below is such a run.  The consecutive `await reportProgress`  *)
(* calls of one phase of scrape, which only overwrite the vendor's own     *)
(* progress record with status 'scraping', are one action that applies     *)
(* every report of the phase in order.                                     *)
(*                                                                         *)
(* Timers are not given durations: a scheduled timer fires at any later    *)
(* step, timers of the same delay in the order they were scheduled.        *)
(***************************************************************************)
EXTENDS Integers, Sequences, FiniteSets, TLC

(***************************************************************************)
(* Bound of the model.                                                     *)
(***************************************************************************)
\* cycles (executions of the body of scrapeAll) a behaviour may start
MaxCycles == 2

(***************************************************************************)
(* Program constants.                                                      *)
(***************************************************************************)
\* scraperConfig.scraping.retryAttempts
RetryAttempts == 2
\* .slice(0, 10) of CentarZlataParser.scrape
MaxKeyProducts == 10

(***************************************************************************)
(* Values.                                                                 *)
(***************************************************************************)
\* an absent optional string (error?: string); a message is a non-empty tuple
NoError == <<>>
\* an absent optional number (undefined); prices are positive
NoPrice == 0
\* the errors an axios GET can fail with
NetErrors == {"timeout of 10000ms exceeded"}
\* the same, with a second one where the order of the failures matters
TraceNetErrors == NetErrors \cup {"Request failed with status code 503"}
\* the errors an extractor can throw
ParseErrors == {"parse failed"}

\* ScraperService.parsers.  Of the three parsers that use BaseParser.scrape as
\* it is (GVS Croatia, Plemenit, Moro) the model takes the first; Centar Zlata
\* overrides scrape.
parsers ==
  << [name |-> "GVS Croatia", revisits |-> FALSE],
     [name |-> "Centar Zlata", revisits |-> TRUE] >>

Vendors == 1..Len(parsers)

getVendorName(v) == parsers[v].name

(***************************************************************************)
(* JavaScript Map: the pairs <<key, value>> in insertion order.            *)
(***************************************************************************)
MapHas(m, k) == \E i \in 1..Len(m) : m[i][1] = k

MapIndex(m, k) == CHOOSE i \in 1..Len(m) : m[i][1] = k

MapGet(m, k) == m[MapIndex(m, k)][2]

\* set keeps the place of a key that is there and appends a new one
MapSet(m, k, val) ==
  IF MapHas(m, k)
    THEN SubSeq(m, 1, MapIndex(m, k) - 1) \o <<(<<k, val>>)>>
           \o SubSeq(m, MapIndex(m, k) + 1, Len(m))
    ELSE Append(m, <<k, val>>)

MapKeys(m) == {m[i][1] : i \in 1..Len(m)}

MapValues(m) == [i \in 1..Len(m) |-> m[i][2]]

MapClear(m) == <<>>

(***************************************************************************)
(* State.                                                                  *)
(***************************************************************************)
VARIABLES
  booted,            \* onModuleInit has run
  isScraping,        \* ScraperService.isScraping
  cachedPrices,      \* ScraperService.cachedPrices: Map vendor -> VendorPriceData
  scrapingProgress,  \* ScraperService.scrapingProgress: Map vendor -> ScrapingProgress
  cycle,             \* executions of the body of scrapeAll started so far; the clock of scrapedAt
  run,               \* per parser: where its scrape call stands, and its locals
  promise,           \* per parser: scrapingPromises[v], <<>> while pending
  scraped,           \* per parser: what the scrape call of this cycle came back with, <<>> before
  timers,            \* pending setTimeout(clear, 3000) callbacks, oldest first, by cycle
  returned,          \* <<results>> in the state a scrapeAll call returns into,
                     \* <<name, value>> in the state a read returns into, else <<>>
  cacheAtStart,      \* history: cachedPrices when the latest cycle started
  call               \* one call of a parser method followed on its own, else NoCall

vars ==
  <<booted, isScraping, cachedPrices, scrapingProgress, cycle, run, promise,
    scraped, timers, returned, cacheAtStart, call>>

(***************************************************************************)
(* PriceEntry values an extractor can return.                              *)
(***************************************************************************)
\* productTitle?.toLowerCase().includes('1g')
TitleIncludes1g(title) == title \in {"Zlatna poluga 1g", "Zlatna poluga 31g"}

\* an entry of a listing page: a one-gram bar with its product link
ListingEntry ==
  [unit |-> "gram", price |-> 100, sellPrice |-> 100, regularPrice |-> NoPrice,
   discountedPrice |-> NoPrice, productLink |-> "https://shop/poluga-1g",
   productTitle |-> "Zlatna poluga 1g"]

\* the results of parse(html): no entry, or the one entry
ParseOutputs == {<<>>, <<ListingEntry>>}

\* the results of fetchProductPrices; all absent stands for null
NoProductPrices == [regularPrice |-> NoPrice, discountedPrice |-> NoPrice, currentPrice |-> NoPrice]

ProductPageResults ==
  { NoProductPrices,
    [regularPrice |-> NoPrice, discountedPrice |-> NoPrice, currentPrice |-> 101],
    [regularPrice |-> 120, discountedPrice |-> 99, currentPrice |-> 99] }

(***************************************************************************)
(* Progress reporting.                                                     *)
(***************************************************************************)
Min(a, b) == IF a < b THEN a ELSE b
Max(a, b) == IF a > b THEN a ELSE b

\* the callback scrapeAll hands to parser.scrape
\* the callback that writes every report under the first vendor's key
progressCallbackOneKey(m, v, progress) ==
  MapSet(m, getVendorName(1),
         [vendor |-> getVendorName(v), status |-> "scraping", progress |-> progress,
          error |-> NoError])

progressCallback(m, v, progress) ==
  MapSet(m, getVendorName(v),
         [vendor |-> getVendorName(v), status |-> "scraping",
          progress |-> progress, error |-> NoError])

\* Math.min(100, Math.max(0, progress))
Clamp(progress) == Min(100, Max(0, progress))

\* mappedProgress: fetch progress 0..100 onto 12..32 (the reports of fetchHtml
\* are multiples of 5, which the division maps onto integers)
mappedProgress(fetchProgress) == 12 + (fetchProgress * 20) \div 100

\* reportProgress of scrape
reportProgress(m, v, progress) ==
  progressCallback(m, v, Clamp(progress))

\* the callback scrape hands to fetchHtml
reportFetchProgress(m, v, fetchProgress) ==
  progressCallback(m, v, Clamp(mappedProgress(fetchProgress)))

\* The reports ps of scrape, made in order.  Every report sets the record of
\* the one key v, and Map.set keeps the place of a key, so the table after
\* the last report is the table with the last report made alone.
ReportAll(m, v, ps) ==
  IF ps = <<>> THEN m ELSE reportProgress(m, v, ps[Len(ps)])

\* the reports ps of fetchHtml, made in order
ReportFetchAll(m, v, ps) ==
  IF ps = <<>> THEN m ELSE reportFetchProgress(m, v, ps[Len(ps)])

Range(a, b) == [i \in 1..(b - a + 1) |-> a + i - 1]

\* the reports of scrape, phase by phase
ReportsBeforeFetch == Range(1, 8) \o Range(8, 12)
ReportsAfterFetch == Range(32, 48) \o Range(48, 55)
ReportsAfterParse == Range(56, 100)
ReportsParseError == <<85, 100>>
ReportsFetchError == <<100>>
\* the reports of fetchHtml, on its own scale
FetchReportsAttempt == <<0, 5, 10, 15, 20, 25>>
FetchReportsResponse == <<60, 65, 70, 75, 80, 85, 90, 95, 100>>
FetchReportsRetry == <<40, 45, 50, 55>>

(***************************************************************************)
(* Vendor runs: BaseParser.scrape, fetchHtml, CentarZlataParser.scrape.    *)
(***************************************************************************)
\* the locals of a scrape call that has not started or is over
IdleRun ==
  [pc |-> "idle", attempt |-> 0, lastError |-> NoError, caught |-> NoError,
   prices |-> <<>>, index |-> 0]

\* the message of the Error fetchHtml throws once every attempt has failed
FetchErrorMessage(v, lastError) ==
  <<"Failed to fetch", getVendorName(v), "after", RetryAttempts + 1, "attempts:", lastError>>

\* what scrape returns from its try block
ScrapeSuccess(v, prices, now) ==
  [threw |-> FALSE,
   data |-> [vendor |-> getVendorName(v), scrapedAt |-> now, prices |-> prices,
             error |-> NoError]]

\* a catch block that answers with a placeholder entry
ScrapeCatchKeepsEntry(v, message, now) ==
  [threw |-> FALSE,
   data |-> [vendor |-> getVendorName(v), scrapedAt |-> now,
             prices |-> <<ListingEntry>>, error |-> message]]

\* a catch block that logs and throws the error on
ScrapeCatchRethrows(v, message, now) ==
  [threw |-> TRUE, message |-> message]

\* what scrape returns from its catch block
ScrapeCatch(v, message, now) ==
  [threw |-> FALSE,
   data |-> [vendor |-> getVendorName(v), scrapedAt |-> now, prices |-> <<>>,
             error |-> message]]

\* BaseParser.scrape coming back, from the try block or from the catch block
ScrapeReturn(v, r, now) ==
  IF r.caught # NoError THEN ScrapeCatch(v, r.caught, now)
  ELSE ScrapeSuccess(v, r.prices, now)

\* CentarZlataParser.scrape returns the result of super.scrape, whose prices
\* it has overwritten in place
RevisitReturn(res, prices) ==
  IF res.threw THEN res ELSE [res EXCEPT !.data.prices = prices]

\* keyProducts of CentarZlataParser.scrape: the indices into prices of the
\* entries the filter keeps, cut to the first MaxKeyProducts
RECURSIVE KeyProductsFrom(_, _)
KeyProductsFrom(prices, i) ==
  IF i > Len(prices) THEN <<>>
  ELSE IF /\ prices[i].productLink # ""
          /\ TitleIncludes1g(prices[i].productTitle)
          /\ prices[i].unit = "gram"
         THEN <<i>> \o KeyProductsFrom(prices, i + 1)
         ELSE KeyProductsFrom(prices, i + 1)

\* the filter without the cut
KeyProductsUncut(prices) == KeyProductsFrom(prices, 1)

KeyProducts(prices) ==
  LET kept == KeyProductsFrom(prices, 1)
  IN SubSeq(kept, 1, Min(MaxKeyProducts, Len(kept)))

\* result.prices.findIndex(link, unit and title of product), 0 for -1
FindIndex(prices, product) ==
  LET hits == {i \in 1..Len(prices) :
                 /\ prices[i].productLink = product.productLink
                 /\ prices[i].unit = product.unit
                 /\ prices[i].productTitle = product.productTitle}
  IN IF hits = {} THEN 0 ELSE CHOOSE i \in hits : \A j \in hits : i <= j

\* the overwrite of one entry by the prices of its product page
UpdateEntry(e, pp) ==
  LET e1 == IF pp.regularPrice # NoPrice
              THEN [e EXCEPT !.regularPrice = pp.regularPrice] ELSE e
  IN IF pp.discountedPrice # NoPrice
       THEN [e1 EXCEPT !.discountedPrice = pp.discountedPrice,
                       !.price = pp.discountedPrice,
                       !.sellPrice = pp.discountedPrice]
       ELSE IF pp.currentPrice # NoPrice
              THEN [e1 EXCEPT !.price = pp.currentPrice, !.sellPrice = pp.currentPrice]
              ELSE e1

\* one turn of the loop of CentarZlataParser.scrape, given what
\* fetchProductPrices returned for keyProducts[index]
RevisitUpdate(prices, index, pp) ==
  LET product == prices[KeyProducts(prices)[index]]
      priceIndex == FindIndex(prices, product)
  IN IF pp # NoProductPrices /\ priceIndex > 0
       THEN [prices EXCEPT ![priceIndex] = UpdateEntry(prices[priceIndex], pp)]
       ELSE prices

(***************************************************************************)
(* ScraperService.                                                         *)
(***************************************************************************)
\* getCurrentResults(): the cache as ScraperResult values
getCurrentResults(cache) ==
  [i \in 1..Len(cache) |->
     LET data == cache[i][2]
     IN [vendor |-> data.vendor,
         success |-> (data.error = NoError),
         data |-> IF data.error # NoError THEN <<>> ELSE <<data>>,
         error |-> data.error]]

\* getCurrentPrices()
getCurrentPrices(cache) == MapValues(cache)

\* scrapeAll, "Initialize progress tracking": clear, then one pending record per parser
RECURSIVE SeedFrom(_, _)
SeedFrom(m, v) ==
  IF v > Len(parsers) THEN m
  ELSE SeedFrom(MapSet(m, getVendorName(v),
                       [vendor |-> getVendorName(v), status |-> "pending",
                        progress |-> 0, error |-> NoError]), v + 1)

\* the seeding that misses the first parser
SeedProgressSkipsFirst(m) == SeedFrom(MapClear(m), 2)

SeedProgress(m) == SeedFrom(MapClear(m), 1)

\* scrapeAll, the synchronous head of every map callback, in parser order:
\* status 'scraping' at 0, then parser.scrape up to its first await
RECURSIVE DispatchFrom(_, _)
DispatchFrom(m, v) ==
  IF v > Len(parsers) THEN m
  ELSE DispatchFrom(reportProgress(progressCallback(m, v, 0), v, 0), v + 1)

DispatchProgress(m) == DispatchFrom(m, 1)

\* scrapeAll, a map callback that ends in failure: the cache is not touched,
\* the record of v is 'error' at 100, the promise fulfils with a failure
OutcomeFailure(v, vendor, message, cache, progress) ==
  [cache |-> cache,
   progress |-> MapSet(progress, getVendorName(v),
                  [vendor |-> getVendorName(v), status |-> "error",
                   progress |-> 100, error |-> message]),
   promise |-> [status |-> "fulfilled",
                value |-> [vendor |-> vendor, success |-> FALSE,
                           data |-> <<>>, error |-> message]]]

\* scrapeAll, a map callback that ends in success: the snapshot goes into the
\* cache, the record of v is 'completed' at 100, the promise fulfils with it
OutcomeSuccess(v, data, cache, progress) ==
  [cache |-> MapSet(cache, data.vendor, data),
   progress |-> MapSet(progress, getVendorName(v),
                  [vendor |-> getVendorName(v), status |-> "completed",
                   progress |-> 100, error |-> NoError]),
   promise |-> [status |-> "fulfilled",
                value |-> [vendor |-> data.vendor, success |-> TRUE,
                           data |-> <<data>>, error |-> NoError]]]

\* a map callback that stores the result before it looks at data.error
VendorOutcomeCachesFailure(v, res, cache, progress) ==
  IF res.threw
    THEN OutcomeFailure(v, getVendorName(v), res.message, cache, progress)
    ELSE IF res.data.error # NoError
      THEN OutcomeFailure(v, res.data.vendor, res.data.error,
                          MapSet(cache, res.data.vendor, res.data), progress)
      ELSE OutcomeSuccess(v, res.data, cache, progress)

\* scrapeAll, the rest of the map callback of parser v once `await
\* parser.scrape` is over (it threw into the catch block, it returned a
\* result with an error, or it returned a snapshot): the cache, the progress
\* table and the value of the promise
VendorOutcome(v, res, cache, progress) ==
  IF res.threw
    THEN OutcomeFailure(v, getVendorName(v), res.message, cache, progress)
    ELSE IF res.data.error # NoError
      THEN OutcomeFailure(v, res.data.vendor, res.data.error, cache, progress)
      ELSE OutcomeSuccess(v, res.data, cache, progress)

\* an aggregation that passes on the successes only
AggregateResultsStrict(settled) ==
  [i \in 1..Len(settled) |->
     IF settled[i].status = "fulfilled" /\ settled[i].value.success
       THEN settled[i].value
       ELSE [vendor |-> "unknown", success |-> FALSE, data |-> <<>>,
             error |-> <<"Unknown error">>]]

\* scrapeAll, "Process results from Promise.allSettled"
AggregateResults(settled) ==
  [i \in 1..Len(settled) |->
     IF settled[i].status = "fulfilled"
       THEN settled[i].value
       ELSE [vendor |-> "unknown", success |-> FALSE, data |-> <<>>,
             error |-> settled[i].reason]]

\* Promise.allSettled(scrapingPromises) has every promise settled
AllSettled(p) == \A w \in Vendors : p[w] # <<>>

(***************************************************************************)
(* Init: the service as constructed.                                       *)
(***************************************************************************)
\* no scrapeAll call returns in this step
NoReturn == <<>>

\* no parser method is followed on its own
NoCall == <<>>

\* the fields of ScraperService as constructed
ServiceInit ==
  /\ booted = FALSE
  /\ isScraping = FALSE
  /\ cachedPrices = <<>>
  /\ scrapingProgress = <<>>
  /\ cycle = 0
  /\ run = [v \in Vendors |-> IdleRun]
  /\ promise = [v \in Vendors |-> <<>>]
  /\ scraped = [v \in Vendors |-> <<>>]
  /\ timers = <<>>
  /\ returned = NoReturn
  /\ cacheAtStart = <<>>

serviceVars ==
  <<booted, isScraping, cachedPrices, scrapingProgress, cycle, run, promise,
    scraped, timers, returned, cacheAtStart>>

Init == ServiceInit /\ call = NoCall

(***************************************************************************)
(* scrapeAll, from the call to its first suspension.                       *)
(***************************************************************************)
\* an entry guard placed inside the try block: the finally block runs
ScrapeAllSkipFinally ==
  /\ returned' = <<getCurrentResults(cachedPrices)>>
  /\ isScraping' = FALSE
  /\ timers' = Append(timers, cycle)
  /\ UNCHANGED <<cachedPrices, scrapingProgress, cycle, run, promise, scraped,
                 cacheAtStart, call>>

\* an entry guard that answers with the cache as the running cycle found it
ScrapeAllSkipPreCycle ==
  /\ returned' = <<getCurrentResults(cacheAtStart)>>
  /\ UNCHANGED <<isScraping, cachedPrices, scrapingProgress, cycle, run,
                 promise, scraped, timers, cacheAtStart, call>>

\* the entry guard holds: log and return the cache
ScrapeAllSkip ==
  /\ returned' = <<getCurrentResults(cachedPrices)>>
  /\ UNCHANGED <<isScraping, cachedPrices, scrapingProgress, cycle, run,
                 promise, scraped, timers, cacheAtStart, call>>

\* the body: the flag, the progress table, the dispatch of every parser
ScrapeAllStart ==
  /\ cycle < MaxCycles
  /\ isScraping' = TRUE
  /\ cycle' = cycle + 1
  /\ scrapingProgress' = DispatchProgress(SeedProgress(scrapingProgress))
  /\ run' = [v \in Vendors |-> [IdleRun EXCEPT !.pc = "init"]]
  /\ promise' = [v \in Vendors |-> <<>>]
  /\ scraped' = [v \in Vendors |-> <<>>]
  /\ cacheAtStart' = cachedPrices
  /\ returned' = NoReturn
  /\ UNCHANGED <<cachedPrices, timers, call>>

\* scrapeAll without its entry guard
ScrapeAllUnguarded == ScrapeAllStart

ScrapeAll == IF isScraping THEN ScrapeAllSkip ELSE ScrapeAllStart

\* onModuleInit: the initial scrape, not awaited
OnModuleInit ==
  /\ ~booted
  /\ booted' = TRUE
  /\ ScrapeAll

\* @Cron(EVERY_5_MINUTES) handleScheduledScraping
HandleScheduledScraping ==
  /\ booted
  /\ ScrapeAll
  /\ UNCHANGED booted

\* POST api/prices/refresh: scrapeAll not awaited, answers getCurrentPrices()
RefreshPrices ==
  /\ booted
  /\ ScrapeAll
  /\ UNCHANGED booted

(***************************************************************************)
(* scrapeAll, once parser.scrape of v has come back with res: the rest of  *)
(* the map callback and, when this was the last pending promise, the       *)
(* aggregation, the return and the finally block.                          *)
(***************************************************************************)
\* a flag that every map callback clears when its parser is done
CycleEndPerVendor(promises) ==
  IF AllSettled(promises)
    THEN /\ returned' = <<AggregateResults([w \in Vendors |-> promises[w][1]])>>
         /\ isScraping' = FALSE
         /\ timers' = Append(timers, cycle)
    ELSE /\ returned' = NoReturn
         /\ isScraping' = FALSE
         /\ UNCHANGED timers

\* `await Promise.allSettled` goes on once the last promise has settled: the
\* aggregation, the return, and the finally block (flag off, clear scheduled)
CycleEnd(promises) ==
  IF AllSettled(promises)
    THEN /\ returned' = <<AggregateResults([w \in Vendors |-> promises[w][1]])>>
         /\ isScraping' = FALSE
         /\ timers' = Append(timers, cycle)
    ELSE /\ returned' = NoReturn
         /\ UNCHANGED <<isScraping, timers>>

Settle(v, res) ==
  LET out == VendorOutcome(v, res, cachedPrices, scrapingProgress)
      promises == [promise EXCEPT ![v] = <<out.promise>>]
  IN /\ cachedPrices' = out.cache
     /\ scrapingProgress' = out.progress
     /\ promise' = promises
     /\ scraped' = [scraped EXCEPT ![v] = <<res>>]
     /\ run' = [run EXCEPT ![v] = [IdleRun EXCEPT !.pc = "settled"]]
     /\ CycleEnd(promises)
     /\ UNCHANGED <<booted, cycle, cacheAtStart, call>>

\* a step of the run of v that touches its locals and the progress table only
RunStep(v, r, progress) ==
  /\ run' = [run EXCEPT ![v] = r]
  /\ scrapingProgress' = progress
  /\ returned' = NoReturn
  /\ UNCHANGED <<booted, isScraping, cachedPrices, cycle, promise, scraped, timers,
                 cacheAtStart, call>>

(***************************************************************************)
(* The steps of one vendor run.                                            *)
(***************************************************************************)
\* scrape steps 1 and 2, then fetchHtml up to the GET of attempt 0
BeginFetch(v) ==
  /\ run[v].pc = "init"
  /\ RunStep(v, [run[v] EXCEPT !.pc = "requesting"],
             ReportFetchAll(ReportAll(scrapingProgress, v, ReportsBeforeFetch), v,
                            FetchReportsAttempt))

\* the GET answers: fetchHtml returns (its locals attempt and lastError are
\* over), scrape goes on up to the call of parse
FetchResponse(v) ==
  /\ run[v].pc = "requesting"
  /\ RunStep(v, [run[v] EXCEPT !.pc = "parsing", !.attempt = 0, !.lastError = NoError],
             ReportAll(ReportFetchAll(scrapingProgress, v, FetchReportsResponse), v,
                       ReportsAfterFetch))

\* the GET fails with e, which becomes lastError: wait for the retry, or throw
\* the Error that carries lastError into the catch of scrape
FetchFailure(v, e) ==
  /\ run[v].pc = "requesting"
  /\ IF run[v].attempt < RetryAttempts
       THEN RunStep(v, [run[v] EXCEPT !.pc = "retryWait", !.lastError = e],
                    ReportFetchAll(scrapingProgress, v, FetchReportsRetry))
       ELSE RunStep(v, [run[v] EXCEPT !.pc = "failing", !.attempt = 0,
                                      !.lastError = NoError,
                                      !.caught = FetchErrorMessage(v, e)],
                    ReportAll(scrapingProgress, v, ReportsFetchError))

\* a retry loop that does not count its attempts
RetryFetchNoCount(v) ==
  /\ run[v].pc = "retryWait"
  /\ RunStep(v, [run[v] EXCEPT !.pc = "requesting"],
             ReportFetchAll(scrapingProgress, v, FetchReportsAttempt))

\* the retry delay is over: the next attempt, up to its GET
RetryFetch(v) ==
  /\ run[v].pc = "retryWait"
  /\ RunStep(v, [run[v] EXCEPT !.pc = "requesting", !.attempt = @ + 1],
             ReportFetchAll(scrapingProgress, v, FetchReportsAttempt))

\* parse(html) returns entries: scrape steps 7 to 10
ParseReturns(v, entries) ==
  /\ run[v].pc = "parsing"
  /\ RunStep(v, [run[v] EXCEPT !.pc = "finishing", !.prices = entries],
             ReportAll(scrapingProgress, v, ReportsAfterParse))

\* parse(html) throws e: the inner catch reports and rethrows, the outer reports
ParseThrows(v, e) ==
  /\ run[v].pc = "parsing"
  /\ RunStep(v, [run[v] EXCEPT !.pc = "failing", !.caught = <<e>>],
             ReportAll(scrapingProgress, v, ReportsParseError))

\* BaseParser.scrape returns.  The parser is done, or (Centar Zlata with key
\* products) it requests the first product page.
ScrapeReturns(v) ==
  /\ run[v].pc \in {"finishing", "failing"}
  /\ LET res == ScrapeReturn(v, run[v], cycle)
     IN IF parsers[v].revisits /\ ~res.threw /\ KeyProducts(res.data.prices) # <<>>
          THEN RunStep(v, [run[v] EXCEPT !.pc = "revisitRequest", !.index = 1,
                                         !.prices = res.data.prices],
                       scrapingProgress)
          ELSE Settle(v, res)

\* fetchProductPrices returns pp (or null) for keyProducts[index]; then the 400 ms pause
ProductPageResponse(v, pp) ==
  /\ run[v].pc = "revisitRequest"
  /\ RunStep(v, [run[v] EXCEPT !.pc = "revisitDelay",
                               !.prices = RevisitUpdate(run[v].prices, run[v].index, pp)],
             scrapingProgress)

\* the pause is over: the next key product, or CentarZlataParser.scrape returns
RevisitNext(v) ==
  /\ run[v].pc = "revisitDelay"
  /\ IF run[v].index < Len(KeyProducts(run[v].prices))
       THEN RunStep(v, [run[v] EXCEPT !.pc = "revisitRequest", !.index = @ + 1],
                    scrapingProgress)
       ELSE Settle(v, RevisitReturn(ScrapeReturn(v, run[v], cycle), run[v].prices))

\* the oldest setTimeout callback of a finally block fires
ClearProgressTimer ==
  /\ timers # <<>>
  /\ scrapingProgress' = MapClear(scrapingProgress)
  /\ timers' = Tail(timers)
  /\ returned' = NoReturn
  /\ UNCHANGED <<booted, isScraping, cachedPrices, cycle, run, promise, scraped,
                 cacheAtStart, call>>

VendorStep ==
  \E v \in Vendors :
    \/ BeginFetch(v)
    \/ FetchResponse(v)
    \/ \E e \in NetErrors : FetchFailure(v, e)
    \/ RetryFetch(v)
    \/ \E entries \in ParseOutputs : ParseReturns(v, entries)
    \/ \E e \in ParseErrors : ParseThrows(v, e)
    \/ ScrapeReturns(v)
    \/ \E pp \in ProductPageResults : ProductPageResponse(v, pp)
    \/ RevisitNext(v)

Next ==
  \/ OnModuleInit
  \/ HandleScheduledScraping
  \/ RefreshPrices
  \/ VendorStep
  \/ ClearProgressTimer

Spec == Init /\ [][Next]_vars

\* every network request returns or fails, and every timer fires
FairSpec == Spec /\ WF_vars(VendorStep) /\ WF_vars(ClearProgressTimer)

(***************************************************************************)
(* The read operations of ScraperService, called at any point.             *)
(***************************************************************************)
\* a read whose caller gets the state of the given variables unchanged
Read(name, value) ==
  /\ returned' = <<name, value>>
  /\ UNCHANGED <<booted, isScraping, cachedPrices, scrapingProgress, cycle, run,
                 promise, scraped, timers, cacheAtStart, call>>

GetCurrentPrices == Read("getCurrentPrices", getCurrentPrices(cachedPrices))

GetCurrentResults == Read("getCurrentResults", getCurrentResults(cachedPrices))

\* a progress read that empties the table it has read
GetScrapingProgressDrains ==
  /\ returned' = <<"getScrapingProgress", MapValues(scrapingProgress)>>
  /\ scrapingProgress' = MapClear(scrapingProgress)
  /\ UNCHANGED <<booted, isScraping, cachedPrices, cycle, run, promise, scraped,
                 timers, cacheAtStart, call>>

GetScrapingProgress == Read("getScrapingProgress", MapValues(scrapingProgress))

GetIsScraping == Read("getIsScraping", isScraping)

ReadNext ==
  \/ Next
  \/ GetCurrentPrices
  \/ GetCurrentResults
  \/ GetScrapingProgress
  \/ GetIsScraping

ReadSpec == Init /\ [][ReadNext]_vars

(***************************************************************************)
(* One scrape call followed report by report.  The actions above apply the *)
(* reports of a phase at once; here every `await reportProgress` and every *)
(* report of fetchHtml is a step of its own, and the call keeps count of   *)
(* its GET requests, its retry delays and the errors of its attempts.      *)
(***************************************************************************)
\* the parser whose scrape call is followed (any parser: BaseParser.scrape)
TraceVendor == 1

\* totalAttempts of fetchHtml
TotalAttempts == RetryAttempts + 1

\* a retry loop that also pauses after the last attempt
RetriesLeftInclusive(attempt) == attempt <= RetryAttempts

\* fetchHtml, catch block: attempt < retryAttempts
RetriesLeft(attempt) == attempt < RetryAttempts

\* the reports of scrape up to fetchHtml, with reportProgress(0), which the
\* orchestrator's dispatch runs in the step that starts the cycle
ReportsFromStart == <<0>> \o ReportsBeforeFetch

\* the values a phase of the call delivers to the progress callback, in order
PhaseReports(pc) ==
  CASE pc = "beforeFetch" -> [i \in 1..Len(ReportsFromStart) |-> Clamp(ReportsFromStart[i])]
    [] pc = "attempt" ->
         [i \in 1..Len(FetchReportsAttempt) |-> Clamp(mappedProgress(FetchReportsAttempt[i]))]
    [] pc = "response" ->
         [i \in 1..Len(FetchReportsResponse) |-> Clamp(mappedProgress(FetchReportsResponse[i]))]
    [] pc = "retry" ->
         [i \in 1..Len(FetchReportsRetry) |-> Clamp(mappedProgress(FetchReportsRetry[i]))]
    [] pc = "afterFetch" -> [i \in 1..Len(ReportsAfterFetch) |-> Clamp(ReportsAfterFetch[i])]
    [] pc = "afterParse" -> [i \in 1..Len(ReportsAfterParse) |-> Clamp(ReportsAfterParse[i])]
    [] pc = "parseError" -> [i \in 1..Len(ReportsParseError) |-> Clamp(ReportsParseError[i])]
    [] pc = "fetchError" -> [i \in 1..Len(ReportsFetchError) |-> Clamp(ReportsFetchError[i])]
    [] OTHER -> <<>>

\* the scrape call as it starts: nothing reported (last = -1), nothing requested
TraceStart ==
  [fn |-> "scrape", pc |-> "beforeFetch", i |-> 1, attempt |-> 0, last |-> -1,
   reported |-> 0, requests |-> 0, waits |-> 0, errors |-> <<>>, caught |-> NoError,
   result |-> <<>>]

TraceInit == ServiceInit /\ call = TraceStart

Tracing == call # NoCall /\ call.fn = "scrape"

\* the phase has made all its reports
PhaseOver == call.i > Len(PhaseReports(call.pc))

\* the next report of the phase reaches the progress callback
TraceReport ==
  /\ Tracing /\ ~PhaseOver
  /\ call' = [call EXCEPT !.last = PhaseReports(call.pc)[call.i], !.i = @ + 1,
                          !.reported = 1]
  /\ UNCHANGED serviceVars

\* scrape calls fetchHtml: the first attempt
TraceFetchHtml ==
  /\ Tracing /\ call.pc = "beforeFetch" /\ PhaseOver
  /\ call' = [call EXCEPT !.pc = "attempt", !.i = 1]
  /\ UNCHANGED serviceVars

\* axiosInstance.get is called
TraceGet ==
  /\ Tracing /\ call.pc = "attempt" /\ PhaseOver
  /\ call' = [call EXCEPT !.pc = "requesting", !.requests = @ + 1]
  /\ UNCHANGED serviceVars

\* the GET answers
TraceResponse ==
  /\ Tracing /\ call.pc = "requesting"
  /\ call' = [call EXCEPT !.pc = "response", !.i = 1]
  /\ UNCHANGED serviceVars

\* the for loop of fetchHtml goes on from a failed attempt: the next
\* attempt, or the throw behind the loop into the catch block of scrape
TraceLoop(c) ==
  IF c.attempt + 1 < TotalAttempts
    THEN [c EXCEPT !.pc = "attempt", !.i = 1, !.attempt = @ + 1]
    ELSE [c EXCEPT !.pc = "fetchError", !.i = 1, !.attempt = @ + 1,
                   !.caught = FetchErrorMessage(TraceVendor, c.errors[Len(c.errors)])]

\* the GET fails with e, which becomes lastError
TraceFailure(e) ==
  /\ Tracing /\ call.pc = "requesting"
  /\ LET failed == [call EXCEPT !.errors = Append(@, e)]
     IN call' = IF RetriesLeft(call.attempt)
                  THEN [failed EXCEPT !.pc = "retry", !.i = 1]
                  ELSE TraceLoop(failed)
  /\ UNCHANGED serviceVars

\* the retry reports are made: delay(retryDelay) starts
TraceRetryDelay ==
  /\ Tracing /\ call.pc = "retry" /\ PhaseOver
  /\ call' = [call EXCEPT !.pc = "retryWait", !.waits = @ + 1]
  /\ UNCHANGED serviceVars

\* the retry delay is over
TraceRetry ==
  /\ Tracing /\ call.pc = "retryWait"
  /\ call' = TraceLoop(call)
  /\ UNCHANGED serviceVars

\* fetchHtml returns the page
TraceFetchReturns ==
  /\ Tracing /\ call.pc = "response" /\ PhaseOver
  /\ call' = [call EXCEPT !.pc = "afterFetch", !.i = 1]
  /\ UNCHANGED serviceVars

\* parse(html) returns
TraceParseReturns ==
  /\ Tracing /\ call.pc = "afterFetch" /\ PhaseOver
  /\ call' = [call EXCEPT !.pc = "afterParse", !.i = 1]
  /\ UNCHANGED serviceVars

\* parse(html) throws e
TraceParseThrows(e) ==
  /\ Tracing /\ call.pc = "afterFetch" /\ PhaseOver
  /\ call' = [call EXCEPT !.pc = "parseError", !.i = 1, !.caught = <<e>>]
  /\ UNCHANGED serviceVars

\* scrape returns its result, with the caught message if it failed
TraceReturn ==
  /\ Tracing /\ call.pc \in {"afterParse", "parseError", "fetchError"} /\ PhaseOver
  /\ call' = [call EXCEPT !.pc = "done", !.result = <<call.caught>>]
  /\ UNCHANGED serviceVars

TraceNext ==
  \/ TraceReport
  \/ TraceFetchHtml
  \/ TraceGet
  \/ TraceResponse
  \/ \E e \in TraceNetErrors : TraceFailure(e)
  \/ TraceRetryDelay
  \/ TraceRetry
  \/ TraceFetchReturns
  \/ TraceParseReturns
  \/ \E e \in ParseErrors : TraceParseThrows(e)
  \/ TraceReturn

TraceSpec == TraceInit /\ [][TraceNext]_vars

(***************************************************************************)
(* The extractors' pure functions, each applied to one input: call holds   *)
(* the function's name, its argument and, once applied, its result.        *)
(***************************************************************************)
\* prices count cents; the largest price an input holds
MaxPrice == 3

PriceValues == {NoPrice} \cup 1..MaxPrice

Abs(x) == IF x < 0 THEN -x ELSE x

\* the first present price of a || chain
FirstPrice(ps) ==
  LET present == {i \in 1..Len(ps) : ps[i] # NoPrice}
  IN IF present = {} THEN NoPrice
     ELSE ps[CHOOSE i \in present : \A j \in present : i <= j]

\* regularPrice, currentPrice and discountedPrice as read from a product
ExtractedPrices ==
  [regularPrice : PriceValues, currentPrice : PriceValues, discountedPrice : PriceValues]

\* the labelled prices of an item's text and the price of its price text
LabelledPrices ==
  [sellPrice : {NoPrice, MaxPrice}, buyPrice : {NoPrice, 1}, mainPrice : {NoPrice, 2}]

\* what MoroParser reads from one product: a price in <ins> is also the
\* current price
MoroExtracted ==
  {[regularPrice |-> x.regularPrice, currentPrice |-> x.currentPrice,
    discountedPrice |-> x.discountedPrice, sellPrice |-> l.sellPrice,
    buyPrice |-> l.buyPrice, mainPrice |-> l.mainPrice] :
     x \in {y \in ExtractedPrices :
              y.discountedPrice # NoPrice => y.currentPrice = y.discountedPrice},
     l \in LabelledPrices}

\* finalMainPrice before the sell price
FinalPriceMainFirst(sellPrice, finalMainPrice) == FirstPrice(<<finalMainPrice, sellPrice>>)

\* sellPrice || finalMainPrice
FinalPrice(sellPrice, finalMainPrice) == FirstPrice(<<sellPrice, finalMainPrice>>)

\* the three rules on regular, current and discounted price that the
\* structured strategies of Moro, GVS Croatia and Centar Zlata share
PriceRules(x) ==
  LET discounted == IF /\ x.regularPrice # NoPrice /\ x.currentPrice # NoPrice
                       /\ x.discountedPrice = NoPrice
                       /\ x.currentPrice < x.regularPrice
                      THEN x.currentPrice ELSE x.discountedPrice
      current == IF /\ x.regularPrice # NoPrice /\ x.currentPrice = NoPrice
                    /\ discounted = NoPrice
                   THEN x.regularPrice ELSE x.currentPrice
      regular == IF /\ x.regularPrice # NoPrice /\ discounted # NoPrice
                    /\ Abs(x.regularPrice - discounted) < 1
                   THEN NoPrice ELSE x.regularPrice
  IN [regularPrice |-> regular, currentPrice |-> current, discountedPrice |-> discounted]

\* the entries MoroParser pushes for a product with these prices; the
\* price text of a product stands here for the price it parses to
MoroPrices(x) ==
  LET ruled == PriceRules(x)
      finalMainPrice == FirstPrice(<<ruled.discountedPrice, ruled.currentPrice,
                                     ruled.regularPrice, x.mainPrice>>)
      price == FirstPrice(<<FinalPrice(x.sellPrice, finalMainPrice), x.buyPrice>>)
  IN IF \/ FirstPrice(<<x.mainPrice, x.regularPrice, x.discountedPrice,
                         x.currentPrice>>) = NoPrice
        \/ price = NoPrice
       THEN <<>>
     ELSE <<[unit |-> "gram", price |-> price,
             sellPrice |-> FirstPrice(<<x.sellPrice, price>>),
             regularPrice |-> ruled.regularPrice, discountedPrice |-> ruled.discountedPrice,
             productLink |-> "", productTitle |-> ""]>>

\* no weight detected
NoWeight == 0

\* the limits of the price per gram
MinPerGram == 50

MaxPerGram == 500

\* pricePerGram = finalPrice / weight; kept unless > 500 or < 50
Plausible(finalPrice, weight, unit) ==
  ~(finalPrice > MaxPerGram * weight \/ finalPrice < MinPerGram * weight)

\* what GvsCroatiaParser reads from one product: the three prices are read
\* apart, the price text always parses, no weight is detected
GvsExtracted ==
  {[regularPrice |-> x.regularPrice, currentPrice |-> x.currentPrice,
    discountedPrice |-> x.discountedPrice, sellPrice |-> l.sellPrice,
    buyPrice |-> l.buyPrice, mainPrice |-> l.mainPrice,
    weight |-> NoWeight, unit |-> "gram"] :
     x \in ExtractedPrices, l \in {y \in LabelledPrices : y.mainPrice # NoPrice}}

\* the weight and the unit of a title that reads a number and a unit word:
\* grams from 1000 on are told in kg
DetectWeight(number, unitStr) ==
  IF unitStr \in {"kg", "kilogram", "kilo"} THEN [weight |-> number, unit |-> "kg"]
  ELSE IF unitStr \in {"oz", "ounce", "unca"} THEN [weight |-> number, unit |-> "ounce"]
  ELSE IF number >= 1000 THEN [weight |-> number \div 1000, unit |-> "kg"]
  ELSE [weight |-> number, unit |-> "gram"]

\* the weights the titles tell (grams from 1000 on in whole thousands)
TitleWeights == {<<1, "g">>, <<100, "g">>, <<1000, "g">>, <<1, "kg">>, <<1, "oz">>}

BarPrices == {20, 100, 600, 3000, 8000, 80000}

\* what GvsCroatiaParser reads from a bar whose title tells its weight and
\* whose price text is its only price
GvsWeighed ==
  {[regularPrice |-> NoPrice, currentPrice |-> NoPrice, discountedPrice |-> NoPrice,
    sellPrice |-> NoPrice, buyPrice |-> NoPrice, mainPrice |-> p,
    weight |-> DetectWeight(t[1], t[2]).weight, unit |-> DetectWeight(t[1], t[2]).unit] :
     t \in TitleWeights, p \in BarPrices}

\* the entries GvsCroatiaParser pushes for a product with these prices
GvsPrices(x) ==
  LET ruled == PriceRules([x EXCEPT !.currentPrice = FirstPrice(<<@, x.mainPrice>>)])
      finalMainPrice == FirstPrice(<<ruled.discountedPrice, ruled.currentPrice,
                                     ruled.regularPrice, x.mainPrice>>)
      finalPrice == FinalPrice(x.sellPrice, finalMainPrice)
  IN IF x.mainPrice = NoPrice THEN <<>>
     ELSE IF x.weight # NoWeight /\ ~Plausible(finalPrice, x.weight, x.unit) THEN <<>>
     ELSE <<[unit |-> x.unit, price |-> finalPrice, sellPrice |-> finalPrice,
             regularPrice |-> ruled.regularPrice, discountedPrice |-> ruled.discountedPrice,
             productLink |-> "", productTitle |-> ""]>>

\* the largest price CentarZlataParser keeps
MaxMainPrice == 1000000

\* what CentarZlataParser reads from one product: a price in <ins> is also
\* the current price; it reads no labelled price
CentarExtracted ==
  {[regularPrice |-> x.regularPrice, currentPrice |-> x.currentPrice,
    discountedPrice |-> x.discountedPrice, sellPrice |-> NoPrice,
    buyPrice |-> NoPrice, mainPrice |-> NoPrice] :
     x \in {y \in ExtractedPrices :
              y.discountedPrice # NoPrice => y.currentPrice = y.discountedPrice}}

\* the entries CentarZlataParser pushes for a product with these prices
CentarPrices(x) ==
  LET ruled == PriceRules(x)
      mainPrice == FirstPrice(<<ruled.discountedPrice, ruled.currentPrice,
                                ruled.regularPrice>>)
  IN IF mainPrice = NoPrice \/ mainPrice > MaxMainPrice THEN <<>>
     ELSE <<[unit |-> "gram", price |-> mainPrice, sellPrice |-> mainPrice,
             regularPrice |-> ruled.regularPrice, discountedPrice |-> ruled.discountedPrice,
             productLink |-> "", productTitle |-> ""]>>

\* the entries PlemenitParser pushes for a table row with these prices
PlemenitPrices(x) ==
  LET discounted == IF /\ x.regularPrice # NoPrice /\ x.currentPrice # NoPrice
                       /\ x.discountedPrice = NoPrice
                       /\ x.currentPrice < x.regularPrice
                      THEN x.currentPrice ELSE x.discountedPrice
      current == IF /\ x.regularPrice # NoPrice /\ x.currentPrice = NoPrice
                    /\ discounted = NoPrice
                   THEN x.regularPrice ELSE x.currentPrice
      sellPrice == FirstPrice(<<x.discountedPrice, x.currentPrice>>)
      mainPrice == FirstPrice(<<discounted, current, x.regularPrice, sellPrice>>)
  IN IF mainPrice = NoPrice THEN <<>>
     ELSE <<[unit |-> "gram", price |-> mainPrice,
             sellPrice |-> FirstPrice(<<sellPrice, mainPrice>>),
             regularPrice |-> x.regularPrice, discountedPrice |-> discounted,
             productLink |-> "", productTitle |-> ""]>>

\* what fetchProductPrices can return: a price in <ins> is also the
\* current price, and all absent is null
PageResults ==
  {x \in ExtractedPrices : x.discountedPrice # NoPrice => x.currentPrice = x.discountedPrice}

\* listing entries of Centar Zlata whose regular and discounted price, if
\* both present, are a discount
DiscountListings ==
  {[ListingEntry EXCEPT !.regularPrice = r, !.discountedPrice = d,
                        !.price = FirstPrice(<<d, ListingEntry.price>>),
                        !.sellPrice = FirstPrice(<<d, ListingEntry.sellPrice>>)] :
     <<r, d>> \in {y \in PriceValues \X PriceValues :
                    (y[1] # NoPrice /\ y[2] # NoPrice) => y[2] < y[1]}}

\* the turn of the revisit loop on a listing of one entry
RevisitOne(x) == RevisitUpdate(<<x.entry>>, 1, x.page)

(***************************************************************************)
(* parsePrice.  A text is a sequence of characters; a number is           *)
(* mantissa / 10^scale with no trailing zero in its fraction, and the     *)
(* number zero stands for null (parsePrice returns no value <= 0).        *)
(***************************************************************************)
Digits == <<"0", "1", "2", "3", "4", "5", "6", "7", "8", "9">>

IsDigit(c) == \E i \in 1..Len(Digits) : Digits[i] = c

DigitValue(c) == (CHOOSE i \in 1..Len(Digits) : Digits[i] = c) - 1

NoNumber == [mantissa |-> 0, scale |-> 0]

\* the number of occurrences of c in s
Count(s, c) == Len(SelectSeq(s, LAMBDA x : x = c))

\* s.lastIndexOf(c), counted from 1, 0 for -1
LastIndexOf(s, c) ==
  LET hits == {i \in 1..Len(s) : s[i] = c}
  IN IF hits = {} THEN 0 ELSE CHOOSE i \in hits : \A j \in hits : j <= i

IndexOf(s, c) ==
  LET hits == {i \in 1..Len(s) : s[i] = c}
  IN IF hits = {} THEN 0 ELSE CHOOSE i \in hits : \A j \in hits : i <= j

\* s.replace(/c/g, '')
RemoveAll(s, c) == SelectSeq(s, LAMBDA x : x # c)

\* s.replace(c, d): the first occurrence only
ReplaceFirst(s, c, d) ==
  IF IndexOf(s, c) = 0 THEN s ELSE [s EXCEPT ![IndexOf(s, c)] = d]

\* parts.slice(0, -1).join('') + '.' + parts[parts.length - 1] for
\* parts = s.split(sep), s holding sep
JoinLastAsDecimal(s, sep) ==
  LET last == LastIndexOf(s, sep)
  IN RemoveAll(SubSeq(s, 1, last - 1), sep) \o <<".">> \o SubSeq(s, last + 1, Len(s))

\* priceText.replace(/[€$£¥\s]/gi, '').trim()
StripCurrency(s) == SelectSeq(s, LAMBDA x : x \notin {"€", "$", "£", "¥", " "})

\* cleaned.replace(/[^\d.,-]/g, '')
StripLetters(s) == SelectSeq(s, LAMBDA x : IsDigit(x) \/ x \in {".", ",", "-"})

\* one comma and no dot, read as thousands separator
SingleCommaDropped(cleaned) == RemoveAll(cleaned, ",")

\* one comma and no dot: the comma is the decimal point
SingleComma(cleaned) == ReplaceFirst(cleaned, ",", ".")

\* the branches on the last separator
Separators(cleaned) ==
  LET lastDotIndex == LastIndexOf(cleaned, ".")
      lastCommaIndex == LastIndexOf(cleaned, ",")
      dotCount == Count(cleaned, ".")
      commaCount == Count(cleaned, ",")
  IN IF lastDotIndex > lastCommaIndex
       THEN IF dotCount = 1 /\ commaCount = 0 THEN cleaned
            ELSE IF dotCount > 1 /\ commaCount = 0 THEN JoinLastAsDecimal(cleaned, ".")
            ELSE RemoveAll(cleaned, ",")
     ELSE IF lastCommaIndex > lastDotIndex
       THEN IF commaCount = 1 /\ dotCount = 0 THEN SingleComma(cleaned)
            ELSE IF commaCount > 1 /\ dotCount = 0 THEN JoinLastAsDecimal(cleaned, ",")
            ELSE ReplaceFirst(RemoveAll(cleaned, "."), ",", ".")
     ELSE IF commaCount > 0 THEN ReplaceFirst(cleaned, ",", ".")
     ELSE IF dotCount = 1
       THEN LET dot == IndexOf(cleaned, ".")
            IN IF Len(cleaned) - dot <= 2 THEN cleaned
               ELSE IF Len(cleaned) - dot = 3 /\ dot - 1 > 3
                      THEN RemoveAll(cleaned, ".")
                      ELSE cleaned
     ELSE cleaned

\* cleaned.replace(/[^\d.]/g, '') and the cut to one decimal point
OneDecimalPoint(cleaned) ==
  LET kept == SelectSeq(cleaned, LAMBDA x : IsDigit(x) \/ x = ".")
  IN IF Count(kept, ".") > 1 THEN JoinLastAsDecimal(kept, ".") ELSE kept

\* the value of a sequence of digits
RECURSIVE DigitsValue(_)
DigitsValue(ds) ==
  IF ds = <<>> THEN 0
  ELSE 10 * DigitsValue(SubSeq(ds, 1, Len(ds) - 1)) + DigitValue(ds[Len(ds)])

\* mantissa / 10^scale without trailing zeros in the fraction
RECURSIVE Normal(_, _)
Normal(mantissa, scale) ==
  IF mantissa = 0 THEN NoNumber
  ELSE IF scale > 0 /\ mantissa % 10 = 0 THEN Normal(mantissa \div 10, scale - 1)
  ELSE [mantissa |-> mantissa, scale |-> scale]

\* parseFloat of digits with at most one dot, NaN folded into NoNumber
ParseFloat(cleaned) ==
  LET dot == IndexOf(cleaned, ".")
      digits == RemoveAll(cleaned, ".")
  IN IF digits = <<>> THEN NoNumber
     ELSE Normal(DigitsValue(digits), IF dot = 0 THEN 0 ELSE Len(cleaned) - dot)

parsePrice(priceText) ==
  IF priceText = <<>> THEN NoNumber
  ELSE ParseFloat(OneDecimalPoint(Separators(StripLetters(StripCurrency(priceText)))))

\* the digits of n
RECURSIVE ToDigits(_)
ToDigits(n) ==
  IF n < 10 THEN <<Digits[n + 1]>>
  ELSE ToDigits(n \div 10) \o <<Digits[(n % 10) + 1]>>

\* "0" repeated n times
Zeros(n) == [i \in 1..n |-> "0"]

\* String(price): the plain decimal rendering of a number
Render(price) ==
  LET ds == ToDigits(price.mantissa)
      padded == IF Len(ds) <= price.scale
                  THEN Zeros(price.scale + 1 - Len(ds)) \o ds ELSE ds
      whole == Len(padded) - price.scale
  IN IF price.scale = 0 THEN padded
     ELSE SubSeq(padded, 1, whole) \o <<".">> \o SubSeq(padded, whole + 1, Len(padded))

\* the digits of a whole part in groups of three, separated by sep
RECURSIVE Grouped(_, _)
Grouped(ds, sep) ==
  IF Len(ds) <= 3 THEN ds
  ELSE Grouped(SubSeq(ds, 1, Len(ds) - 3), sep) \o <<sep>> \o SubSeq(ds, Len(ds) - 2, Len(ds))

\* 1.234,56 € and 1,234.56 € for the amount with these digits
European(a) == Grouped(a.whole, ".") \o <<",">> \o a.cents \o <<" ", "€">>

American(a) == Grouped(a.whole, ",") \o <<".">> \o a.cents \o <<" ", "€">>

\* the number an amount stands for
AmountValue(a) == Normal(DigitsValue(a.whole \o a.cents), 2)

\* the longest text and the longest whole part of the inputs
MaxLen == 4

MaxWhole == 5

\* the characters of the input texts; the digits of the amounts
TextChars == {"0", "1", "5", ".", ",", "-", " ", "€", "a"}

AmountDigits == {"0", "1", "5"}

Texts(n) == UNION {[1..k -> TextChars] : k \in 0..n}

Amounts ==
  {[whole |-> w, cents |-> c] :
     w \in {x \in UNION {[1..k -> AmountDigits] : k \in 1..MaxWhole} :
              Len(x) = 1 \/ x[1] # "0"},
     c \in [1..2 -> AmountDigits]}

\* the texts of the specification's examples
ExampleTexts ==
  { <<"1", "4", "6", ",", "5", "0", " ", "€">>,
    <<"1", "4", "6", ".", "5", "0">>,
    <<"1", ".", "2", "3", "4", ",", "5", "6", " ", "€">>,
    <<"1", ",", "2", "3", "4", ".", "5", "6", " ", "€">>,
    <<"a", "b", "c">> }

\* texts such as 1500.000: a group of more than three digits, a dot, three
\* digits
LongGroupTexts ==
  {w \o <<".">> \o t :
     w \in {x \in UNION {[1..k -> AmountDigits] : k \in 4..MaxWhole} : x[1] # "0"},
     t \in [1..3 -> AmountDigits]}

ParseCalls ==
  {[fn |-> "parsePrice", arg |-> t, result |-> <<>>] :
     t \in Texts(MaxLen) \cup ExampleTexts \cup LongGroupTexts}
  \cup {[fn |-> "parseBoth", arg |-> a, result |-> <<>>] : a \in Amounts}

(***************************************************************************)
(* normalizeUnit.                                                          *)
(***************************************************************************)
UpperCase == <<"A", "C", "E", "G", "I", "K", "L", "M", "N", "O", "R", "S", "U", "Z">>

LowerCase == <<"a", "c", "e", "g", "i", "k", "l", "m", "n", "o", "r", "s", "u", "z">>

\* unit.toLowerCase()
ToLowerCase(s) ==
  [i \in 1..Len(s) |->
     IF \E j \in 1..Len(UpperCase) : UpperCase[j] = s[i]
       THEN LowerCase[CHOOSE j \in 1..Len(UpperCase) : UpperCase[j] = s[i]]
       ELSE s[i]]

ToUpperCase(s) ==
  [i \in 1..Len(s) |->
     IF \E j \in 1..Len(LowerCase) : LowerCase[j] = s[i]
       THEN UpperCase[CHOOSE j \in 1..Len(LowerCase) : LowerCase[j] = s[i]]
       ELSE s[i]]

\* s.trim()
Trim(s) ==
  LET inked == {i \in 1..Len(s) : s[i] # " "}
  IN IF inked = {} THEN <<>>
     ELSE SubSeq(s, CHOOSE i \in inked : \A j \in inked : i <= j,
                    CHOOSE i \in inked : \A j \in inked : j <= i)

Gram == <<"g", "r", "a", "m">>

Kg == <<"k", "g">>

Ounce == <<"o", "u", "n", "c", "e">>

unitMap ==
  << <<(<<"g">>), Gram>>, <<Gram, Gram>>, <<Gram \o <<"s">>, Gram>>, <<(<<"g", "r">>), Gram>>,
     <<(<<"o", "z">>), Ounce>>, <<Ounce, Ounce>>, <<Ounce \o <<"s">>, Ounce>>,
     <<Kg, Kg>>, <<(<<"k", "i", "l", "o">>) \o Gram, Kg>>,
     <<(<<"k", "i", "l", "o">>) \o Gram \o <<"s">>, Kg>>, <<(<<"k", "i", "l", "o">>), Kg>> >>

normalizeUnit(unit) ==
  LET normalized == Trim(ToLowerCase(unit))
  IN IF MapHas(unitMap, normalized) THEN MapGet(unitMap, normalized) ELSE normalized

\* the unit words a row of the Plemenit table can match
PlemenitUnitWords ==
  { <<"g">>, Gram, <<"g", "r">>, Kg, <<"k", "i", "l", "o">> \o Gram, <<"k", "i", "l", "o">>,
    <<"o", "z">>, Ounce, <<"u", "n", "c", "a">> }

\* further arguments: the plurals of the table and words outside it
OtherUnitWords ==
  { Gram \o <<"s">>, Ounce \o <<"s">>, <<"k", "i", "l", "o">> \o Gram \o <<"s">>,
    <<"k", "o", "m">>, <<"l", "o", "t">> }

\* a word as written: in lower or upper case or capitalised, with or without
\* blanks around it
Spellings(word) ==
  {lead \o cased \o trail :
     lead \in {<<>>, <<" ">>}, trail \in {<<>>, <<" ", " ">>},
     cased \in {word, ToUpperCase(word), ToUpperCase(SubSeq(word, 1, 1)) \o Tail(word)}}

UnitCalls ==
  {[fn |-> "normalizeUnit", arg |-> [word |-> w, unit |-> u], result |-> <<>>] :
     <<w, u>> \in {y \in (PlemenitUnitWords \cup OtherUnitWords)
                        \X UNION {Spellings(z) : z \in PlemenitUnitWords \cup OtherUnitWords} :
                   y[2] \in Spellings(y[1])}}

(***************************************************************************)
(* The de-duplication passes.  Prices here count thousandths, so that two *)
(* prices can round to the same cent.                                      *)
(***************************************************************************)
\* Math.round(x * 100) / 100, in cents
Round2(x) == (x + 5) \div 10

\* the key of an entry in the pass of each extractor
Key(fn, p) ==
  CASE fn = "plemenitDedup" ->
         <<p.unit, Round2(FirstPrice(<<p.sellPrice, p.price>>)), Round2(p.buyPrice)>>
    [] fn = "moroDedup" -> <<p.unit, FirstPrice(<<p.price, p.sellPrice>>)>>
    [] fn = "gvsDedup" -> <<p.unit, Round2(FirstPrice(<<p.price, p.sellPrice>>))>>
    [] fn = "centarDedup" ->
         <<p.unit, FirstPrice(<<p.price, p.sellPrice>>), p.productTitle>>

\* the further condition of the pass on an entry
Priced(fn, p) ==
  fn = "plemenitDedup" => FirstPrice(<<p.price, p.sellPrice, p.buyPrice>>) # NoPrice

AlwaysUnseen(seen, key) == TRUE

\* !seen.has(key)
Unseen(seen, key) == key \notin seen

\* prices.forEach from entry i on, with the keys seen so far
RECURSIVE DedupFrom(_, _, _, _)
DedupFrom(fn, prices, i, seen) ==
  IF i > Len(prices) THEN <<>>
  ELSE IF Unseen(seen, Key(fn, prices[i])) /\ Priced(fn, prices[i])
    THEN <<prices[i]>> \o DedupFrom(fn, prices, i + 1, seen \cup {Key(fn, prices[i])})
    ELSE DedupFrom(fn, prices, i + 1, seen)

Dedup(fn, prices) == DedupFrom(fn, prices, 1, {})

DedupPasses == {"plemenitDedup", "moroDedup", "gvsDedup", "centarDedup"}

\* the most entries of an input
MaxEntries == 3

\* entries as the extractors push them: each has a price or a sell price
PushedEntries ==
  LET E(unit, price, sellPrice, buyPrice, title) ==
        [unit |-> unit, price |-> price, sellPrice |-> sellPrice, buyPrice |-> buyPrice,
         productTitle |-> title]
  IN { E("gram", 1000, 1000, NoPrice, ""), E("gram", 1004, 1004, NoPrice, ""),
       E("gram", 1000, 2000, NoPrice, ""), E("gram", NoPrice, 1000, NoPrice, ""),
       E("gram", 1000, NoPrice, NoPrice, ""), E("gram", 1000, 1000, 500, ""),
       E("gram", 1000, 1000, NoPrice, "Zlatna poluga 1g"),
       E("ounce", 1000, 1000, NoPrice, "") }

DedupCalls ==
  {[fn |-> fn, arg |-> prices, result |-> <<>>] :
     fn \in DedupPasses,
     prices \in UNION {[1..k -> PushedEntries] : k \in 0..MaxEntries}}

(***************************************************************************)
(* parse(html): the extraction strategies of a vendor in their order.  A  *)
(* page is what each strategy would find on it, as the keys of its entries *)
(* in the de-duplication pass.                                             *)
(***************************************************************************)
\* the strategies of each parse method
StrategyCount == [plemenit |-> 4, gvs |-> 2, moro |-> 2, centar |-> 2]

ParseVendors == {"plemenit", "gvs", "moro", "centar"}

\* what one strategy can find: nothing, one entry, twins, two entries
Finds == {<<>>, <<1>>, <<1, 1>>, <<1, 2>>}

\* the guard that lets every strategy run
AlwaysEmpty(prices) == TRUE

\* prices.length === 0
EmptySoFar(prices) == Len(prices) = 0

\* the first strategy is not guarded, the others are
RunsStrategy(i, prices) == i = 1 \/ EmptySoFar(prices)

\* the entries strategy i pushes for the first n of its finds
Pushed(i, finds, n) == [j \in 1..n |-> [strategy |-> i, key |-> finds[j]]]

\* the pass that keeps the first entry of each key
RECURSIVE UniqueFrom(_, _, _)
UniqueFrom(prices, i, seen) ==
  IF i > Len(prices) THEN <<>>
  ELSE IF prices[i].key \notin seen
    THEN <<prices[i]>> \o UniqueFrom(prices, i + 1, seen \cup {prices[i].key})
    ELSE UniqueFrom(prices, i + 1, seen)

StrategyCalls ==
  {[fn |-> "parse", arg |-> [vendor |-> v, finds |-> f], result |-> <<>>,
    strategy |-> 1, prices |-> <<>>, ran |-> {}] :
     <<v, f>> \in {y \in ParseVendors \X UNION {[1..n -> Finds] : n \in {2, 4}} :
                   Len(y[2]) = StrategyCount[y[1]]}}

(***************************************************************************)
(* CentarZlataParser.scrape behind super.scrape: the revisits of a        *)
(* snapshot's key products.                                                *)
(***************************************************************************)
\* the most entries of a listing
MaxListing == 11

Links ==
  <<"https://shop/1", "https://shop/2", "https://shop/3", "https://shop/4",
    "https://shop/5", "https://shop/6", "https://shop/7", "https://shop/8",
    "https://shop/9", "https://shop/10", "https://shop/11", "https://shop/12",
    "https://shop/13">>

\* n one-gram bars, each with its own product link
GramBars(n) == [i \in 1..n |-> [ListingEntry EXCEPT !.productLink = Links[i]]]

\* the snapshots super.scrape returns: a failure, or a listing of one-gram
\* bars, alone or behind an entry without a link, a kg bar or a five-gram bar
ListingSnapshots ==
  {[prices |-> <<>>, error |-> <<"parse failed">>]}
  \cup {[prices |-> front \o GramBars(n), error |-> NoError] :
          n \in 0..MaxListing,
          front \in {<<>>,
                     <<[ListingEntry EXCEPT !.productLink = ""]>>,
                     <<[ListingEntry EXCEPT !.unit = "kg", !.productLink = Links[MaxListing + 1]]>>,
                     <<[ListingEntry EXCEPT !.productTitle = "Zlatna poluga 5g",
                                            !.productLink = Links[MaxListing + 1]]>>}}

\* what a revisit answers: null (the request failed or the page shows no
\* price) or the page's current price
PageAnswers ==
  {NoProductPrices, [regularPrice |-> NoPrice, discountedPrice |-> NoPrice, currentPrice |-> 101]}

RevisitCalls ==
  {[fn |-> "revisit", arg |-> x, result |-> <<>>, pc |-> "loop", index |-> 0,
    prices |-> x.prices, requests |-> 0, delays |-> 0, visited |-> <<>>, found |-> {}] :
     x \in ListingSnapshots}

(***************************************************************************)
(* The scan of the whole document, the last strategy of each extractor,   *)
(* over the amounts its pattern matches in the page text, as parsed.       *)
(***************************************************************************)
\* the bounds the scans compare an amount with
PlemenitScanMin == 10
ScanMin == 100
ScanMax == 100000
\* uniquePrices.slice(0, 20)
TopPrices == 20

GramEntry(price) == [unit |-> "gram", price |-> price, sellPrice |-> price]

\* Math.max(...values)
RECURSIVE SeqMax(_)
SeqMax(values) ==
  IF Len(values) = 1 THEN values[1] ELSE Max(values[1], SeqMax(Tail(values)))

\* Array.from(new Set(values)): the first occurrence of each value
RECURSIVE Unique(_, _)
Unique(values, seen) ==
  IF values = <<>> THEN <<>>
  ELSE IF values[1] \in seen THEN Unique(Tail(values), seen)
  ELSE <<values[1]>> \o Unique(Tail(values), seen \cup {values[1]})

\* sort((a, b) => b - a), on distinct values
RECURSIVE Descending(_)
Descending(S) ==
  IF S = {} THEN <<>>
  ELSE LET top == CHOOSE v \in S : \A w \in S : w <= v
       IN <<top>> \o Descending(S \ {top})

GramEntries(values) == [i \in 1..Len(values) |-> GramEntry(values[i])]

\* PlemenitParser.parse, the last resort: the highest amount when one parsed
PlemenitScan(values) ==
  LET Parsed(v) == v # NoPrice
      Reasonable(v) == v # NoPrice /\ v > PlemenitScanMin /\ v < ScanMax
      europeanPrices == SelectSeq(values, Parsed)
  IN IF Len(europeanPrices) > 0 THEN <<GramEntry(SeqMax(europeanPrices))>>
     ELSE GramEntries(Unique(SelectSeq(values, Reasonable), {}))

\* MoroParser.parse, the alternative parsing, and the pass over its entries
MoroScan(values) ==
  LET Reasonable(v) == v # NoPrice /\ v > ScanMin
  IN Dedup("moroDedup", GramEntries(SelectSeq(values, Reasonable)))

CentarReasonable(v) == v # NoPrice /\ v > ScanMin /\ v < ScanMax

\* CentarZlataParser.parse, the alternative parsing: the 20 highest of the
\* distinct amounts in range
CentarScan(values) ==
  LET uniquePrices == Descending({values[i] : i \in {j \in 1..Len(values) : CentarReasonable(values[j])}})
  IN GramEntries(SubSeq(uniquePrices, 1, Min(TopPrices, Len(uniquePrices))))

\* the most amounts of a page, but for the one long page
MaxAmounts == 3

ScanValues == {5, 50, 150, 2000, 100000, 200000}

\* pages with up to MaxAmounts amounts, and a page with 21 amounts in range
ScanPages ==
  UNION {[1..n -> ScanValues] : n \in 0..MaxAmounts}
  \cup {[i \in 1..(TopPrices + 1) |-> ScanMin + i]}

ScanCalls ==
  {[fn |-> f, arg |-> x, result |-> <<>>] :
     f \in {"plemenitScan", "moroScan", "centarScan"}, x \in ScanPages}

\* the pending calls
PriceCalls ==
  {[fn |-> "moroPrices", arg |-> x, result |-> <<>>] : x \in MoroExtracted}
  \cup {[fn |-> "plemenitPrices", arg |-> x, result |-> <<>>] : x \in ExtractedPrices}
  \cup {[fn |-> "gvsPrices", arg |-> x, result |-> <<>>] : x \in GvsExtracted \cup GvsWeighed}
  \cup {[fn |-> "centarPrices", arg |-> x, result |-> <<>>] : x \in CentarExtracted}
  \cup {[fn |-> "revisitOne", arg |-> [entry |-> e, page |-> pp], result |-> <<>>] :
          <<e, pp>> \in DiscountListings \X PageResults}

CallInputs ==
  PriceCalls \cup ParseCalls \cup UnitCalls \cup DedupCalls \cup StrategyCalls
  \cup RevisitCalls \cup ScanCalls

CallInit == ServiceInit /\ call \in CallInputs

Pending(fn) == call # NoCall /\ call.fn = fn /\ call.result = <<>>

Returned(fn) == call # NoCall /\ call.fn = fn /\ call.result # <<>>

Return(value) ==
  /\ call' = [call EXCEPT !.result = <<value>>]
  /\ UNCHANGED serviceVars

CallMoroPrices == Pending("moroPrices") /\ Return(MoroPrices(call.arg))

CallPlemenitPrices == Pending("plemenitPrices") /\ Return(PlemenitPrices(call.arg))

CallGvsPrices == Pending("gvsPrices") /\ Return(GvsPrices(call.arg))

CallCentarPrices == Pending("centarPrices") /\ Return(CentarPrices(call.arg))

CallRevisitOne == Pending("revisitOne") /\ Return(RevisitOne(call.arg))

\* parsePrice(text)
CallParsePrice == Pending("parsePrice") /\ Return(parsePrice(call.arg))

\* parsePrice(String(price)) for the price the call returned
CallParseRendered ==
  /\ call # NoCall /\ call.fn = "parsePrice"
  /\ Len(call.result) = 1 /\ call.result[1] # NoNumber
  /\ call' = [call EXCEPT !.result = Append(@, parsePrice(Render(call.result[1])))]
  /\ UNCHANGED serviceVars

\* parsePrice of both renderings of one amount
CallParseBoth ==
  /\ Pending("parseBoth")
  /\ Return([european |-> parsePrice(European(call.arg)),
             american |-> parsePrice(American(call.arg))])

CallNormalizeUnit == Pending("normalizeUnit") /\ Return(normalizeUnit(call.arg.unit))

\* the pass on the entries pushed
CallDedup ==
  /\ call # NoCall /\ call.fn \in DedupPasses /\ call.result = <<>>
  /\ Return(Dedup(call.fn, call.arg))

\* the pass on its own output
CallDedupAgain ==
  /\ call # NoCall /\ call.fn \in DedupPasses /\ Len(call.result) = 1
  /\ call' = [call EXCEPT !.result = Append(@, Dedup(call.fn, call.result[1]))]
  /\ UNCHANGED serviceVars

Parsing == call # NoCall /\ call.fn = "parse" /\ call.result = <<>>

\* the next strategy of parse: it runs to its end, or its guard skips it
CallStrategy ==
  /\ Parsing /\ call.strategy <= StrategyCount[call.arg.vendor]
  /\ LET i == call.strategy
         finds == call.arg.finds[i]
     IN call' = IF RunsStrategy(i, call.prices)
                  THEN [call EXCEPT !.strategy = i + 1, !.ran = @ \cup {i},
                                    !.prices = @ \o Pushed(i, finds, Len(finds))]
                  ELSE [call EXCEPT !.strategy = i + 1]
  /\ UNCHANGED serviceVars

\* the next strategy throws after n of its entries: the catch block of parse
\* logs the error, and no further strategy runs
CallStrategyThrows(n) ==
  /\ Parsing /\ call.strategy <= StrategyCount[call.arg.vendor]
  /\ RunsStrategy(call.strategy, call.prices)
  /\ n <= Len(call.arg.finds[call.strategy])
  /\ call' = [call EXCEPT !.strategy = StrategyCount[call.arg.vendor] + 1,
                          !.ran = @ \cup {call.strategy},
                          !.prices = @ \o Pushed(call.strategy,
                                                 call.arg.finds[call.strategy], n)]
  /\ UNCHANGED serviceVars

\* parse returns the entries that pass the de-duplication
CallParseReturns ==
  /\ Parsing /\ call.strategy > StrategyCount[call.arg.vendor]
  /\ Return(UniqueFrom(call.prices, 1, {}))

Revisiting == call # NoCall /\ call.fn = "revisit" /\ call.result = <<>>

\* the loop reaches the next key product: fetchProductPrices sends its GET
CallRevisitRequest ==
  /\ Revisiting /\ call.pc = "loop"
  /\ call.index < Len(KeyProducts(call.prices))
  /\ call' = [call EXCEPT !.pc = "requesting", !.index = @ + 1, !.requests = @ + 1,
                          !.visited = Append(@, KeyProducts(call.prices)[call.index + 1])]
  /\ UNCHANGED serviceVars

\* fetchProductPrices returns pp; the entry is overwritten; the pause starts
CallRevisitAnswer(pp) ==
  /\ Revisiting /\ call.pc = "requesting"
  /\ call' = [call EXCEPT !.pc = "delay",
                          !.prices = RevisitUpdate(call.prices, call.index, pp),
                          !.found = IF pp = NoProductPrices THEN @
                                    ELSE @ \cup {KeyProducts(call.prices)[call.index]}]
  /\ UNCHANGED serviceVars

\* the pause of 400 ms is over
CallRevisitDelay ==
  /\ Revisiting /\ call.pc = "delay"
  /\ call' = [call EXCEPT !.pc = "loop", !.delays = @ + 1]
  /\ UNCHANGED serviceVars

\* the loop is over: scrape returns the snapshot with the entries as they are
CallRevisitReturns ==
  /\ Revisiting /\ call.pc = "loop"
  /\ call.index >= Len(KeyProducts(call.prices))
  /\ Return([call.arg EXCEPT !.prices = call.prices])

CallPlemenitScan == Pending("plemenitScan") /\ Return(PlemenitScan(call.arg))

CallMoroScan == Pending("moroScan") /\ Return(MoroScan(call.arg))

CallCentarScan == Pending("centarScan") /\ Return(CentarScan(call.arg))

CallNext ==
  \/ CallPlemenitScan
  \/ CallMoroScan
  \/ CallCentarScan
  \/ CallRevisitRequest
  \/ \E pp \in PageAnswers : CallRevisitAnswer(pp)
  \/ CallRevisitDelay
  \/ CallRevisitReturns
  \/ CallStrategy
  \/ \E n \in 0..2 : CallStrategyThrows(n)
  \/ CallParseReturns
  \/ CallDedup
  \/ CallDedupAgain
  \/ CallNormalizeUnit
  \/ CallParsePrice
  \/ CallParseRendered
  \/ CallParseBoth
  \/ CallMoroPrices
  \/ CallPlemenitPrices
  \/ CallGvsPrices
  \/ CallCentarPrices
  \/ CallRevisitOne

CallSpec == CallInit /\ [][CallNext]_vars

(***************************************************************************)
(* Properties.                                                             *)
(***************************************************************************)
\* the value of key k in Map m, <<>> when m has no key k
Entry(m, k) == IF MapHas(m, k) THEN <<MapGet(m, k)>> ELSE <<>>

\* the scrape call of v has not come back and is not idle
InFlight(v) == run[v].pc \notin {"idle", "settled"}

\* this step is the one in which the run of v settles
Settles(v) == scraped[v] = <<>> /\ scraped'[v] # <<>>

\* a scrape call ended in failure: it threw, or its result carries an error
RunFailed(res) == res.threw \/ res.data.error # NoError

RunMessage(res) == IF res.threw THEN res.message ELSE res.data.error

\* the final form of the progress record of v, whose run has settled
FinalRecord(v) ==
  IF RunFailed(scraped[v][1])
    THEN [vendor |-> getVendorName(v), status |-> "error", progress |-> 100,
          error |-> RunMessage(scraped[v][1])]
    ELSE [vendor |-> getVendorName(v), status |-> "completed", progress |-> 100,
          error |-> NoError]

\* a trigger of scrapeAll (startup, timer, refresh) while a cycle is running
SkippedTrigger ==
  isScraping /\ (OnModuleInit \/ HandleScheduledScraping \/ RefreshPrices)

\* C1: the body of scrapeAll (seeding and dispatch, which counts a cycle)
\* starts only in a step that finds the flag false and no vendor run of an
\* earlier cycle in flight, whatever the order of the triggers.
SingleFlight ==
  [][cycle' # cycle =>
       /\ ~isScraping
       /\ \A v \in Vendors : ~InFlight(v)
       /\ cycle' = cycle + 1
       /\ isScraping']_vars

\* C1 witness: a second cycle is running, and a trigger has just been turned away.
SecondCycleSkipsTrigger ==
  cycle = 2 /\ isScraping /\ returned # NoReturn

\* C2: a trigger that arrives while a cycle is running changes neither the
\* cache, the progress table nor the flag, starts no vendor run and no cycle,
\* schedules no clear, and returns the outcomes of the cache.
SkipIsNoOp ==
  [][SkippedTrigger =>
       /\ UNCHANGED <<cachedPrices, scrapingProgress, isScraping, cycle, run,
                      promise, scraped, timers>>
       /\ returned' = <<getCurrentResults(cachedPrices)>>]_vars

\* C2 witness: a trigger has been turned away while one vendor had settled,
\* another was still running and a clear of the cycle before was pending.
SkipMidCycle ==
  /\ isScraping /\ returned # NoReturn
  /\ timers # <<>>
  /\ \E v, w \in Vendors : scraped[v] # <<>> /\ InFlight(w)

\* C3 as stated: a trigger that arrives while a cycle is running returns the
\* outcomes of the cache as it was when that cycle started.
SkipReturnsPreCycleCache ==
  (isScraping /\ returned # NoReturn) =>
     returned[1] = getCurrentResults(cacheAtStart)

\* C3 amended: a trigger that arrives while a cycle is running returns the
\* outcomes of the cache as it is at the trigger: for a vendor whose run of
\* this cycle has succeeded the snapshot of that run, for any other vendor
\* the entry from before the cycle.
SkipReturnsCurrentCache ==
  (isScraping /\ returned # NoReturn) =>
     /\ returned[1] = getCurrentResults(cachedPrices)
     /\ \A v \in Vendors :
          Entry(cachedPrices, getVendorName(v)) =
            IF scraped[v] # <<>> /\ ~RunFailed(scraped[v][1])
              THEN <<scraped[v][1].data>>
              ELSE Entry(cacheAtStart, getVendorName(v))

\* C3 witness: a trigger has been turned away after a vendor of the running
\* cycle had put a new snapshot into the cache.
SkipAfterVendorSucceeded ==
  /\ isScraping /\ returned # NoReturn
  /\ cachedPrices # cacheAtStart
  /\ \E v \in Vendors : scraped[v] # <<>> /\ ~RunFailed(scraped[v][1])

\* C4: in the step in which the run of v settles, the cache entry of v becomes
\* the snapshot of that run if it succeeded and stays what it was (a snapshot
\* or absent) if it failed; no other step changes the cache entry of v.
CacheFollowsRun ==
  [][\A v \in Vendors :
       IF Settles(v) /\ ~RunFailed(scraped'[v][1])
         THEN Entry(cachedPrices', getVendorName(v)) = <<scraped'[v][1].data>>
         ELSE Entry(cachedPrices', getVendorName(v)) =
                Entry(cachedPrices, getVendorName(v))]_vars

\* C4 witness: a vendor's run of the second cycle has failed and the cache
\* still holds its non-empty snapshot of the first cycle.
FailedRunKeepsSnapshot ==
  \E v \in Vendors :
    /\ cycle = 2
    /\ scraped[v] # <<>> /\ RunFailed(scraped[v][1])
    /\ MapHas(cachedPrices, getVendorName(v))
    /\ MapGet(cachedPrices, getVendorName(v)).scrapedAt = 1
    /\ MapGet(cachedPrices, getVendorName(v)).prices # <<>>

\* C5 as stated, second half: once a cycle has ended and while its delayed
\* clear is pending, the progress table holds for every vendor the final form
\* of its record (completed or error, at 100).
ProgressFinalAfterCycle ==
  (~isScraping /\ \E i \in 1..Len(timers) : timers[i] = cycle) =>
     \A v \in Vendors :
       Entry(scrapingProgress, getVendorName(v)) = <<FinalRecord(v)>>

\* C5, first half: the step in which the run of v settles sets the record of
\* v to its final form, and whenever no cycle runs every record the table
\* holds is the final form of its vendor's record.
ProgressSetAtSettle ==
  /\ [][\A v \in Vendors :
          Settles(v) =>
            Entry(scrapingProgress', getVendorName(v)) = <<FinalRecord(v)'>>]_vars
  /\ [](~isScraping =>
          \A v \in Vendors :
            MapHas(scrapingProgress, getVendorName(v)) =>
              MapGet(scrapingProgress, getVendorName(v)) = FinalRecord(v))

\* C6: a completed cycle returns one outcome per parser, in parser order and
\* under the parser's name (none named "unknown"); the outcome and the cache
\* entry of a vendor follow from its own run alone: a success with the
\* snapshot of the run, which is then the cache entry, or a failure with the
\* error of the run and the cache entry from before the cycle.
FailureIsolation ==
  (~isScraping /\ returned # NoReturn) =>
     /\ Len(returned[1]) = Len(parsers)
     /\ \A v \in Vendors :
          LET outcome == returned[1][v]
              res == scraped[v][1]
              vendorName == getVendorName(v)
          IN /\ outcome.vendor = vendorName
             /\ outcome.vendor # "unknown"
             /\ outcome.success = ~RunFailed(res)
             /\ IF RunFailed(res)
                  THEN /\ outcome.error = RunMessage(res)
                       /\ outcome.data = <<>>
                       /\ Entry(cachedPrices, vendorName) =
                            Entry(cacheAtStart, vendorName)
                  ELSE /\ outcome.error = NoError
                       /\ outcome.data = <<res.data>>
                       /\ Entry(cachedPrices, vendorName) = <<res.data>>

\* C6 witness: a cycle has completed in which every fetch of the first vendor
\* failed and the second vendor succeeded: one failure and one success, no
\* cache entry for the first, a snapshot for the second.
OneFailsOneSucceeds ==
  /\ ~isScraping /\ returned # NoReturn
  /\ ~returned[1][1].success /\ returned[1][2].success
  /\ returned[1][1].error =
       FetchErrorMessage(1, "timeout of 10000ms exceeded")
  /\ ~MapHas(cachedPrices, getVendorName(1))
  /\ MapHas(cachedPrices, getVendorName(2))

\* C7: the flag is true exactly while a vendor run of the cycle (a product
\* page revisit included) is in progress: it is set in the step that
\* dispatches the runs and cleared in the step in which the last of them
\* settles, whatever the outcomes.
FlagCoversRuns ==
  isScraping <=> \E v \in Vendors : InFlight(v)

\* C7 witness: the first vendor has settled in failure, the second is between
\* two product page revisits, and the flag is set.
FlagSetDuringRevisits ==
  /\ isScraping
  /\ scraped[1] # <<>> /\ RunFailed(scraped[1][1])
  /\ run[2].pc = "revisitDelay"

\* C8: with every request answered or failed and every timer fired, a cycle
\* that has started completes: the flag becomes false again.
CycleCompletes == isScraping ~> ~isScraping

\* C8 witness: a cycle has completed and returned although every vendor failed.
AllFailedCycleCompleted ==
  /\ ~isScraping /\ returned # NoReturn
  /\ \A v \in Vendors : ~returned[1][v].success

\* C9 as stated: once a cycle has completed and while no cycle runs, the
\* progress table is emptied only by the delayed clear of that cycle.
RetainedUntilOwnClear ==
  [][(~isScraping /\ ~isScraping' /\ scrapingProgress # <<>>
        /\ scrapingProgress' = <<>>) =>
       (timers # <<>> /\ Head(timers) = cycle)]_vars

\* C10: the scrape call of a vendor comes back with a result and does not
\* throw: from the catch block (every fetch attempt failed, or parse threw)
\* with the caught message and no prices, otherwise with the entries at hand,
\* the time of the call and no error.
ScrapeNeverThrows ==
  /\ [](\A v \in Vendors :
          scraped[v] # <<>> =>
            /\ ~scraped[v][1].threw
            /\ scraped[v][1].data.vendor = getVendorName(v)
            /\ scraped[v][1].data.scrapedAt = cycle
            /\ scraped[v][1].data.error # NoError =>
                 scraped[v][1].data.prices = <<>>)
  /\ [][\A v \in Vendors :
          Settles(v) =>
            /\ ~scraped'[v][1].threw
            /\ IF run[v].pc = "failing"
                 THEN /\ scraped'[v][1].data.error = run[v].caught
                      /\ run[v].caught # NoError
                 ELSE /\ scraped'[v][1].data.error = NoError
                      /\ scraped'[v][1].data.prices = run[v].prices]_vars

\* C10 witness: both scrape calls have come back with a result, one after
\* every fetch attempt failed, the other after parse threw.
BothFailuresReturned ==
  \E v, w \in Vendors :
    /\ scraped[v] # <<>> /\ ~scraped[v][1].threw
    /\ scraped[v][1].data.error =
         FetchErrorMessage(v, "timeout of 10000ms exceeded")
    /\ scraped[w] # <<>> /\ ~scraped[w][1].threw
    /\ scraped[w][1].data.error = <<"parse failed">>

\* C11 as stated: every value a scrape call delivers to the progress callback
\* is at least the value delivered before it, whatever the fetch attempts do.
ProgressMonotonic ==
  [][(Tracing /\ call.reported = 1) => call'.last >= call.last]_vars

\* C11, the part that holds: the first value delivered is 0, every value is
\* within 0..100, and the last value before the call returns is 100.
ProgressFromZeroToHundred ==
  Tracing =>
    /\ call.reported = 1 => call.last \in 0..100
    /\ (call.reported = 1 /\ call.pc = "beforeFetch" /\ call.i = 2) => call.last = 0
    /\ call.pc = "done" => call.last = 100

\* C12: every snapshot a vendor run has returned, and every snapshot Centar
\* Zlata's run holds while it revisits product pages, has no prices if it
\* has an error.
ErrorImpliesNoPrices ==
  \A v \in Vendors :
    /\ (scraped[v] # <<>> /\ ~scraped[v][1].threw /\ scraped[v][1].data.error # NoError)
         => scraped[v][1].data.prices = <<>>
    /\ run[v].pc \in {"revisitRequest", "revisitDelay"} => run[v].caught = NoError

\* C12 witness: the runs of both vendors, Centar Zlata's included, have
\* returned a snapshot with an error.
BothSnapshotsWithError ==
  \A v \in Vendors :
    /\ scraped[v] # <<>> /\ ~scraped[v][1].threw
    /\ scraped[v][1].data.error # NoError
    /\ scraped[v][1].data.prices = <<>>

\* a read has just returned
ReadReturned == Len(returned) = 2

\* the prices a successful run of v can return
FinalPrices(v) ==
  IF parsers[v].revisits
    THEN {IF p = <<>> THEN p ELSE <<UpdateEntry(p[1], pp)>> :
            p \in ParseOutputs, pp \in ProductPageResults}
    ELSE ParseOutputs

\* d is a snapshot as one successful run of a cycle so far returned it
WholeSnapshot(d) ==
  \E v \in Vendors :
    /\ d.vendor = getVendorName(v)
    /\ d.error = NoError
    /\ d.scrapedAt \in 1..cycle
    /\ d.prices \in FinalPrices(v)

\* C13: a call of getCurrentPrices, getCurrentResults, getScrapingProgress or
\* getIsScraping, at any point of a cycle or between cycles, changes neither
\* the cache, the progress table, the flag nor any run; it returns what the
\* state holds, and every snapshot it returns is a whole snapshot of one
\* successful run.
ReadsChangeNothing ==
  /\ [][(GetCurrentPrices \/ GetCurrentResults \/ GetScrapingProgress \/ GetIsScraping) =>
          UNCHANGED <<booted, isScraping, cachedPrices, scrapingProgress, cycle, run,
                      promise, scraped, timers>>]_vars
  /\ [](ReadReturned =>
          /\ returned[1] = "getCurrentPrices" =>
               /\ returned[2] = MapValues(cachedPrices)
               /\ \A i \in 1..Len(returned[2]) : WholeSnapshot(returned[2][i])
          /\ returned[1] = "getCurrentResults" =>
               /\ Len(returned[2]) = Len(cachedPrices)
               /\ \A i \in 1..Len(returned[2]) :
                    /\ returned[2][i].success
                    /\ returned[2][i].data = <<cachedPrices[i][2]>>
                    /\ WholeSnapshot(returned[2][i].data[1])
          /\ returned[1] = "getScrapingProgress" =>
               returned[2] = MapValues(scrapingProgress)
          /\ returned[1] = "getIsScraping" => returned[2] = isScraping)

\* C13 witness: getCurrentPrices has returned in the middle of a cycle, with
\* the snapshot one vendor has just written while the other is still running.
ReadMidCycle ==
  /\ ReadReturned /\ returned[1] = "getCurrentPrices"
  /\ isScraping
  /\ \E v, w \in Vendors :
       /\ InFlight(w)
       /\ scraped[v] # <<>> /\ ~RunFailed(scraped[v][1])
       /\ \E i \in 1..Len(returned[2]) : returned[2][i] = scraped[v][1].data

\* C14: in every entry an extractor returns, and in every entry the Centar
\* Zlata revisit has overwritten, a regular and a discounted price that are
\* both present satisfy discountedPrice < regularPrice.
DiscountBelowRegular ==
  \A fn \in {"moroPrices", "plemenitPrices", "revisitOne"} :
    Returned(fn) =>
      \A i \in 1..Len(call.result[1]) :
        LET e == call.result[1][i]
        IN (e.regularPrice # NoPrice /\ e.discountedPrice # NoPrice)
             => e.discountedPrice < e.regularPrice

\* C15: parsePrice gives the same number, the amount itself, for the
\* European and the American rendering of an amount; it gives 146.50 for
\* "146,50 €" and "146.50", 1234.56 for "1.234,56 €" and "1,234.56 €", no
\* value for "abc"; and the plain decimal rendering of a returned number
\* parses to that number again.
ParsePriceCanonical ==
  /\ Returned("parseBoth") =>
       /\ call.result[1].european = call.result[1].american
       /\ call.result[1].european = AmountValue(call.arg)
  /\ Returned("parsePrice") =>
       /\ call.arg \in { <<"1", "4", "6", ",", "5", "0", " ", "€">>,
                         <<"1", "4", "6", ".", "5", "0">> }
            => call.result[1] = [mantissa |-> 1465, scale |-> 1]
       /\ call.arg \in { <<"1", ".", "2", "3", "4", ",", "5", "6", " ", "€">>,
                         <<"1", ",", "2", "3", "4", ".", "5", "6", " ", "€">> }
            => call.result[1] = [mantissa |-> 123456, scale |-> 2]
       /\ call.arg = <<"a", "b", "c">> => call.result[1] = NoNumber
       /\ Len(call.result) = 2 => call.result[2] = call.result[1]

\* the European rendering of an amount with a thousands group has been
\* parsed and its plain rendering parsed again
ParsedGroupedAndRendered ==
  /\ Returned("parsePrice")
  /\ call.arg = <<"1", ".", "2", "3", "4", ",", "5", "6", " ", "€">>
  /\ Len(call.result) = 2
  /\ call.result[1] # NoNumber

\* C16: normalizeUnit maps g, gram and gr to gram, kg, kilogram and kilo to
\* kg, and oz, ounce and unca to ounce, in any case and with blanks around
\* them; every other word comes back lower-cased and trimmed.
SynonymsCanonical ==
  Returned("normalizeUnit") =>
    LET word == call.arg.word
    IN call.result[1] =
         IF word \in {<<"g">>, <<"g", "r", "a", "m">>, <<"g", "r">>}
           THEN <<"g", "r", "a", "m">>
         ELSE IF word \in {<<"k", "g">>, <<"k", "i", "l", "o", "g", "r", "a", "m">>,
                           <<"k", "i", "l", "o">>}
           THEN <<"k", "g">>
         ELSE IF word \in {<<"o", "z">>, <<"o", "u", "n", "c", "e">>, <<"u", "n", "c", "a">>}
           THEN <<"o", "u", "n", "c", "e">>
         ELSE IF word \in PlemenitUnitWords \cup {<<"k", "o", "m">>, <<"l", "o", "t">>}
           THEN word
         ELSE call.result[1]

SeededAtCycleStart ==
  /\ [](SeedProgress(scrapingProgress) =
          [v \in Vendors |->
             <<getVendorName(v),
               [vendor |-> getVendorName(v), status |-> "pending", progress |-> 0,
                error |-> NoError]>>])
  /\ [][cycle' # cycle =>
          scrapingProgress' =
            [v \in Vendors |->
               <<getVendorName(v),
                 [vendor |-> getVendorName(v), status |-> "scraping", progress |-> 0,
                  error |-> NoError]>>]]_vars

\* the second cycle has just started over the final records of the first,
\* whose clearing timer is still pending
StartedOverStaleRecords ==
  /\ cycle = 2
  /\ timers # <<>>
  /\ \A v \in Vendors : run[v].pc = "init"
  /\ \A v \in Vendors : MapGet(scrapingProgress, getVendorName(v)).status = "scraping"

\* C19: a step of the run of one vendor leaves the cache entry and the
\* progress record of every other vendor as they were.
PerVendorWrites ==
  [][(cycle' = cycle /\ Len(timers') >= Len(timers)) =>
       \A w \in Vendors :
         (run'[w] = run[w] /\ scraped'[w] = scraped[w]) =>
           /\ Entry(cachedPrices', getVendorName(w)) = Entry(cachedPrices, getVendorName(w))
           /\ Entry(scrapingProgress', getVendorName(w))
                = Entry(scrapingProgress, getVendorName(w))]_vars

\* the first vendor's run has written its cache entry while the second,
\* which has none, is past its fetch and still running
WroteWhileOtherRuns ==
  /\ run[1].pc = "settled"
  /\ MapHas(cachedPrices, getVendorName(1))
  /\ ~MapHas(cachedPrices, getVendorName(2))
  /\ run[2].pc = "revisitRequest"

\* a GET of the call has been answered
FetchSucceeded(c) ==
  \/ c.pc \in {"response", "afterFetch", "afterParse", "parseError"}
  \/ c.pc = "done" /\ Len(c.errors) <= RetryAttempts

\* fetchHtml has thrown
FetchFailed(c) ==
  \/ c.pc = "fetchError"
  \/ c.pc = "done" /\ Len(c.errors) > RetryAttempts

\* the requests made that have not failed
Outstanding(c) == IF c.pc = "requesting" \/ FetchSucceeded(c) THEN 1 ELSE 0

\* C20: fetchHtml has at most one GET outstanding, makes none after one has
\* succeeded and never more than retryAttempts + 1; it starts the retry
\* delay only after a failed attempt that another attempt follows; and it
\* fails only when retryAttempts + 1 attempts have failed, with a message
\* that holds the vendor's name and the message of the last failure.
FetchRetryDiscipline ==
  /\ [](Tracing =>
          /\ call.requests <= RetryAttempts + 1
          /\ call.requests = Len(call.errors) + Outstanding(call)
          /\ call.waits <= RetryAttempts
          /\ call.waits <= Len(call.errors)
          /\ (call.pc \in {"attempt", "requesting"} \/ FetchSucceeded(call))
               => call.waits = Len(call.errors)
          /\ FetchFailed(call) =>
               /\ call.requests = RetryAttempts + 1
               /\ Len(call.errors) = RetryAttempts + 1
               /\ call.waits = RetryAttempts
               /\ call.caught = <<"Failed to fetch", getVendorName(TraceVendor), "after",
                                  RetryAttempts + 1, "attempts:",
                                  call.errors[RetryAttempts + 1]>>
          /\ (call.pc = "done" /\ call.result[1] \notin {NoError} \cup {<<e>> : e \in ParseErrors})
               => FetchFailed(call))
  /\ [][Tracing =>
          /\ FetchSucceeded(call) => call'.requests = call.requests
          /\ call'.requests > call.requests =>
               call.requests = Len(call.errors) /\ call'.requests = call.requests + 1
          /\ call'.waits > call.waits =>
               /\ call.requests = Len(call.errors)
               /\ Len(call.errors) <= RetryAttempts]_vars

\* the call has failed after three failed attempts, the first with another
\* error than the last, and two retry delays
FailedAfterAllAttempts ==
  /\ Tracing /\ call.pc = "done"
  /\ Len(call.errors) = RetryAttempts + 1
  /\ call.errors[1] # call.errors[RetryAttempts + 1]
  /\ call.waits = RetryAttempts
  /\ call.result[1] # NoError

\* the structured strategies whose items carry a regular, a discounted and
\* a current price
StructuredItems == {"moroPrices", "gvsPrices", "centarPrices"}

\* C21: the price of every entry of a structured strategy is the first
\* present of the recovered discounted, current and regular price, and when
\* the regular and the discounted price are both present and less than 0.01
\* apart the entry has no regular price.
PriceByPriority ==
  \A fn \in StructuredItems :
    Returned(fn) =>
      \A i \in 1..Len(call.result[1]) :
        LET x == call.arg
            e == call.result[1][i]
            first == FirstPrice(<<x.discountedPrice, x.currentPrice, x.regularPrice>>)
        IN /\ first # NoPrice => e.price = first
           /\ (/\ x.regularPrice # NoPrice /\ x.discountedPrice # NoPrice
               /\ Abs(x.regularPrice - x.discountedPrice) < 1)
                => e.regularPrice = NoPrice

\* C21, amended: the price of every entry of a structured strategy is the
\* first present of the labelled sell price, the discounted price, the
\* current price (for GVS Croatia the price of the price text when no current
\* price was read), the regular price, the price of the price text and the
\* labelled buy price; the clearing of the regular price is as claimed.
PriceBySellThenPriority ==
  \A fn \in StructuredItems :
    Returned(fn) =>
      \A i \in 1..Len(call.result[1]) :
        LET x == call.arg
            e == call.result[1][i]
            current == IF fn = "gvsPrices"
                         THEN FirstPrice(<<x.currentPrice, x.mainPrice>>)
                         ELSE x.currentPrice
        IN /\ e.price = FirstPrice(<<x.sellPrice, x.discountedPrice, current,
                                     x.regularPrice, x.mainPrice, x.buyPrice>>)
           /\ (/\ x.regularPrice # NoPrice /\ x.discountedPrice # NoPrice
               /\ Abs(x.regularPrice - x.discountedPrice) < 1)
                => e.regularPrice = NoPrice

\* a Moro product with a discounted price and another labelled sell price
\* has been pushed
SellLabelBesideDiscount ==
  /\ Returned("moroPrices")
  /\ call.arg.discountedPrice # NoPrice
  /\ call.arg.sellPrice # NoPrice
  /\ call.arg.sellPrice # call.arg.discountedPrice
  /\ Len(call.result[1]) = 1

\* C22: in every parse call the strategies that have run are the first ones
\* in order, a strategy has run only if the entries were empty before it,
\* so all entries pushed, and all entries returned, come from one strategy;
\* and a call that ran to its end without an error returns the entries of
\* the first strategy that finds any.
FirstYieldingStrategyOnly ==
  (call # NoCall /\ call.fn = "parse") =>
    /\ \A i \in call.ran : \A j \in 1..(i - 1) :
         /\ j \in call.ran
         /\ \A k \in 1..Len(call.prices) : call.prices[k].strategy # j
    /\ \A k, l \in 1..Len(call.prices) : call.prices[k].strategy = call.prices[l].strategy
    /\ call.result # <<>> =>
         /\ \A k \in 1..Len(call.result[1]) :
              \E l \in 1..Len(call.prices) : call.result[1][k] = call.prices[l]
         /\ \A k \in 1..Len(call.result[1]) :
              \A j \in 1..(call.result[1][k].strategy - 1) : call.arg.finds[j] = <<>>

\* a Plemenit call has returned the entries of its third strategy: the
\* first two found nothing, and the last, which would have found entries,
\* did not run
ThirdStrategyAnswered ==
  /\ Returned("parse")
  /\ call.arg.vendor = "plemenit"
  /\ call.ran = {1, 2, 3}
  /\ call.arg.finds[4] # <<>>
  /\ Len(call.result[1]) = 2

\* the composite key of an entry: its unit and its prices in cents
CompositeKey(p) == <<p.unit, Round2(p.price), Round2(p.sellPrice), Round2(p.buyPrice)>>

\* C23: no two entries of the output of a de-duplication pass share the
\* composite key of unit and prices rounded to cents, and every entry of the
\* output has a positive price, sell price or buy price.
UniqueCompositeKeys ==
  (call # NoCall /\ call.fn \in DedupPasses /\ call.result # <<>>) =>
    LET output == call.result[1]
    IN /\ \A i, j \in 1..Len(output) :
            i # j => CompositeKey(output[i]) # CompositeKey(output[j])
       /\ \A i \in 1..Len(output) :
            output[i].price > 0 \/ output[i].sellPrice > 0 \/ output[i].buyPrice > 0

\* the text is digits around one separator sep, with `before` digits in
\* front of it and `after` digits behind it
SingleSeparator(text, sep, before, after) ==
  /\ Len(text) = before + 1 + after
  /\ text[before + 1] = sep
  /\ \A i \in 1..Len(text) : i # before + 1 => IsDigit(text[i])

\* C24: parsePrice reads a single '.' with three digits behind it and more
\* than three digits in front of it as a thousands separator, and a single
\* '.' or ',' with two digits behind it as the decimal point.
GroupingHeuristics ==
  Returned("parsePrice") =>
    /\ (\E before \in 4..MaxWhole : SingleSeparator(call.arg, ".", before, 3))
         => call.result[1] = Normal(DigitsValue(RemoveAll(call.arg, ".")), 0)
    /\ (\E sep \in {".", ","} : \E before \in 1..MaxWhole :
          SingleSeparator(call.arg, sep, before, 2))
         => call.result[1] =
              Normal(DigitsValue(SelectSeq(call.arg, LAMBDA x : IsDigit(x))), 2)

\* C25: a Centar Zlata run requests at most 10 product pages, each for
\* another gram entry with a product link of the listing, in listing order;
\* a request is sent only when every earlier one has been answered and its
\* pause is over; an entry whose revisit found nothing is as the listing
\* has it; and the run returns every entry and the listing's error, none of
\* its own.
RevisitsBounded ==
  (call # NoCall /\ call.fn = "revisit") =>
    /\ call.requests <= 10
    /\ call.requests = Len(call.visited)
    /\ \A k \in 1..Len(call.visited) :
         /\ call.arg.prices[call.visited[k]].unit = "gram"
         /\ call.arg.prices[call.visited[k]].productLink # ""
         /\ \A l \in 1..(k - 1) : call.visited[l] < call.visited[k]
    /\ call.delays = IF call.pc \in {"requesting", "delay"}
                       THEN call.requests - 1 ELSE call.requests
    /\ Len(call.prices) = Len(call.arg.prices)
    /\ \A i \in 1..Len(call.prices) :
         i \notin call.found =>
           /\ call.prices[i].price = call.arg.prices[i].price
           /\ call.prices[i].sellPrice = call.arg.prices[i].sellPrice
           /\ call.prices[i].discountedPrice = call.arg.prices[i].discountedPrice
    /\ call.result # <<>> =>
         /\ call.result[1].error = call.arg.error
         /\ call.result[1].prices = call.prices

\* a run over a listing of eleven one-gram bars has returned after ten
\* revisits, of which some found a price and some did not
TenOfElevenRevisited ==
  /\ Returned("revisit")
  /\ Len(KeyProductsFrom(call.arg.prices, 1)) = 11
  /\ call.requests = 10
  /\ call.found # {}
  /\ Cardinality(call.found) < 10

\* the lower bound of the range of each scan
ScanLower(fn) == IF fn = "plemenitScan" THEN PlemenitScanMin ELSE ScanMin

\* C26: the scan of the whole document emits one gram entry for each
\* distinct amount of the page above the scan's lower bound and below its
\* upper bound, and no other entry.
ScanEmitsAmountsInRange ==
  \A fn \in {"plemenitScan", "moroScan", "centarScan"} :
    Returned(fn) =>
      LET out == call.result[1]
          inRange == {call.arg[i] : i \in {j \in 1..Len(call.arg) :
                        call.arg[j] > ScanLower(fn) /\ call.arg[j] < ScanMax}}
      IN /\ Len(out) = Cardinality(inRange)
         /\ {out[i].price : i \in 1..Len(out)} = inRange
         /\ \A i \in 1..Len(out) : out[i].unit = "gram"

\* the grams of a weight told in a unit (a troy ounce is 31.1 g: the prices
\* of the ounce bars lie far from the limits)
InGrams(weight, unit) ==
  CASE unit = "kg" -> 1000 * weight
    [] unit = "ounce" -> 31 * weight
    [] OTHER -> weight

\* C27: the structured strategy of GVS drops an entry with a detected weight
\* exactly when its price per gram is above 500 or below 50, whatever the
\* unit the weight is told in.
FilterJudgesPricePerGram ==
  (Returned("gvsPrices") /\ call.arg.weight # NoWeight) =>
    LET grams == InGrams(call.arg.weight, call.arg.unit)
    IN (call.result[1] = <<>>) <=>
         (call.arg.mainPrice > 500 * grams \/ call.arg.mainPrice < 50 * grams)

\* C28: while a cycle is running the progress table holds one record for
\* every configured vendor and no other record.
TableCoversRunningCycle ==
  isScraping =>
    /\ Len(scrapingProgress) = Len(parsers)
    /\ \A v \in Vendors : MapHas(scrapingProgress, getVendorName(v))

\* status completed or error at progress 100
IsFinal(record) == record.status \in {"completed", "error"} /\ record.progress = 100

\* C29: whenever no cycle runs every record of the progress table is final,
\* and a final record that is still in the table after a step of the cycle
\* that wrote it is the same record.
FinalRecordsStay ==
  /\ [](~isScraping =>
          \A i \in 1..Len(scrapingProgress) : IsFinal(scrapingProgress[i][2]))
  /\ [][\A v \in Vendors :
          ( /\ cycle' = cycle
            /\ MapHas(scrapingProgress, getVendorName(v))
            /\ IsFinal(MapGet(scrapingProgress, getVendorName(v)))
            /\ MapHas(scrapingProgress', getVendorName(v)) ) =>
          MapGet(scrapingProgress', getVendorName(v)) =
            MapGet(scrapingProgress, getVendorName(v))]_vars

\* C29 witness: no cycle runs and the table holds a record for every vendor,
\* a completed one and an error one among them.
MixedFinalTableAtRest ==
  /\ ~isScraping
  /\ \E i, j \in 1..Len(scrapingProgress) :
       /\ scrapingProgress[i][2].status = "completed"
       /\ scrapingProgress[j][2].status = "error"
  /\ Len(scrapingProgress) = Len(parsers)

\* the cache holds a snapshot of v with at least one price entry
HoldsPrices(cache, v) ==
  MapHas(cache, getVendorName(v)) /\ MapGet(cache, getVendorName(v)).prices # <<>>

\* C30 as stated: a cached snapshot with at least one price entry is never
\* replaced by a snapshot with no price entries.
NeverReplacedByEmpty ==
  [][\A v \in Vendors :
       HoldsPrices(cachedPrices, v) => HoldsPrices(cachedPrices', v)]_vars

\* C30 amended: a cached snapshot with at least one price entry stays in the
\* cache or is replaced, and it is replaced by a snapshot with no price
\* entries only in the step in which a run of its vendor settles as a success
\* whose extraction yielded no entries, never by the snapshot of a failure.
ReplacedByEmptyOnlyOnSuccess ==
  [][\A v \in Vendors :
       HoldsPrices(cachedPrices, v) =>
         /\ MapHas(cachedPrices', getVendorName(v))
         /\ MapGet(cachedPrices', getVendorName(v)).prices = <<>> =>
              /\ Settles(v)
              /\ ~RunFailed(scraped'[v][1])
              /\ scraped'[v][1].data.prices = <<>>
              /\ MapGet(cachedPrices', getVendorName(v)) = scraped'[v][1].data
              /\ MapGet(cachedPrices', getVendorName(v)).error = NoError]_vars

\* C30 witness: the cache held a snapshot with entries when the second cycle
\* started, and the run of the second cycle has put an empty snapshot in
\* its place.
EmptySnapshotOverPrices ==
  \E v \in Vendors :
    /\ cycle = 2
    /\ HoldsPrices(cacheAtStart, v)
    /\ MapGet(cachedPrices, getVendorName(v)).scrapedAt = 2
    /\ MapGet(cachedPrices, getVendorName(v)).prices = <<>>

====
